---- MODULE Spec2Model ----
(***************************************************************************)
(* Verification model of the generation-and-delivery pipeline:             *)
(*   app/services/telegram_service.py  (chunk_text, flood-wait retry,      *)
(*                                      send_images_and_prompt, send_text) *)
(*   app/services/gemini_service.py    (_run_with_retry, generate_images)  *)
(*   app/services/assistant_service.py (generate_prompt_text)              *)
(*   app/services/prompt_guard.py      (sanitize, validate_prompt)         *)
(*   app/smoke_test.py                 (main)                              *)
(* A text is a sequence of one-character strings.                          *)
(***************************************************************************)
EXTENDS Integers, Sequences, FiniteSets, TLC

VARIABLES
    \* ---- chunk_text (telegram_service.py) ----
    text,        \* argument `text`
    limit,       \* argument `limit`
    chunks,      \* the returned list
    chunk_pc,    \* "call" | "returned" | "ValueError"
    \* ---- generate_images (gemini_service.py) ----
    g_args,      \* the arguments: prompt (blank or not), n, aspect, fmt
    images_api,  \* what the SDK offers as genai.Images / genai.images
    images,      \* generate_images: images
    attempts,    \* generate_images: attempts
    remaining,   \* generate_images: remaining (the count handed down)
    collected,   \* _generate_with_model: collected
    model_i,     \* _generate_with_model: iterations of the for loop completed
    attempt,     \* _run_with_retry: attempt
    last_error,  \* _run_with_retry: last_error
    img_pc,      \* where generate_images stands
    g_result,    \* the list generate_images returned
    g_error,     \* the exception generate_images raised
    produced,    \* history: every payload extracted, in production order
    rlog,        \* history: outcomes of func() in the current _run_with_retry
    retry_exit,  \* history: how the current _run_with_retry ended
    passes,      \* history: each pass of the loop and the surfaces it used
    sig_warnings, \* history: the payloads _extract_png_bytes warned about
    \* ---- delivery (telegram_service.py) ----
    tg_args,        \* entry point called and its arguments
    tg_pc,          \* where the delivery stands
    uploaded_files, \* send_images_and_prompt: uploaded_files
    tg_i,           \* index of the image being uploaded / the chunk being sent
    fw_attempts,    \* attempts of the retry wrapper that is running
    wait_seconds,   \* the sleep the running wrapper took before its retry
    exc_seconds,    \* the seconds attribute of the rate-limit signal slept on
    tg_warnings,    \* history: the payloads ensure_png_bytes warned about
    tg_error,       \* the exception the delivery raised
    calls,          \* history: every channel call invoked, with its outcome
    \* ---- generate_prompt_text (assistant_service.py) ----
    p_pc,          \* where generate_prompt_text stands
    p_attempt,     \* the loop variable `attempt`
    p_elapsed,     \* _poll_run: half-seconds since the deadline was set
    last_reason,   \* generate_prompt_text: last_reason
    logged_error,  \* generate_prompt_text: logged_error
    p_result,      \* the string generate_prompt_text returned
    p_error,       \* the exception generate_prompt_text raised
    compositions,  \* history: calls of build_randomized_user_prompt
    runs,          \* history: calls of runs.create
    error_logs,    \* history: the reason given to each call of LOGGER.error
    run_statuses,  \* history: the terminal status each run was retrieved with
    verdicts,      \* history: what validate_prompt returned, attempt by attempt
    blanks,        \* history: extracted texts that were blank after sanitize
    info_logs,     \* history: the "assistant prompt generated" records
    \* ---- _ensure_client and close_client (telegram_service.py) ----
    _client,        \* the shared handle: 0 for None, else the client's number
    _client_lock,   \* the caller holding the lock, 0 when it is free
    _LOGIN_MODE,    \* the module flag
    c_pc,           \* where each caller stands
    c_client,       \* _ensure_client: the local `client` of each caller
    c_got,          \* the client each caller's _ensure_client returned
    connected,      \* is_connected() of every client
    created,        \* history: TelegramClient objects constructed
    authorized,     \* history: the clients found or made authorized
    closed,         \* history: the clients close_client disconnected
    epoch,          \* history: connections lost or closed so far
    failures,       \* history: _ensure_client calls that raised
    returns,        \* history: what each _ensure_client return handed out
    c_ops,          \* history: operations started
    c_drops,        \* history: connections lost
    c_issued,       \* history: the channel operation a delivery issued last
    \* ---- main (smoke_test.py) ----
    m_args,       \* the parsed arguments: n, aspect, no_send
    m_pc,         \* where main stands
    m_prompt,     \* main: prompt
    m_images,     \* main: images
    m_error,      \* the exception that left main
    stage_calls,  \* history: the stages invoked, with their arguments
    m_logs,       \* history: the log records of main
    \* ---- sanitize and validate_prompt (prompt_guard.py) ----
    s_text,    \* the text given
    s_pc,      \* what has been evaluated
    s_once,    \* sanitize(text)
    s_twice,   \* sanitize(sanitize(text))
    v_first,   \* validate_prompt(text)
    v_second,  \* validate_prompt(text), evaluated in another run
    \* ---- run_now and enqueue_run_now (main.py, queue.py) ----
    _queue,         \* the module queue: the job ids put on it, oldest first
    requests,       \* POST /run-now requests that arrived and wait for the handler
    responses,      \* history: the RunNowResponse of every handled request
    job_context,    \* the job id in the logging context
    q_logs,         \* history: the log records of the handler, with their context
    pipeline_runs,  \* history: the jobs a pipeline run was started for
    \* ---- _run_with_retry on its own (gemini_service.py) ----
    r_pc,           \* where _run_with_retry stands
    r_first,        \* the exception the first func() raised
    r_invocations,  \* history: the times func() was called
    r_error         \* the exception that left _run_with_retry

chunkVars == <<text, limit, chunks, chunk_pc>>

imgVars == <<sig_warnings, g_args, images_api, images, attempts, remaining, collected, model_i,
             attempt, last_error, img_pc, g_result, g_error, produced, rlog,
             retry_exit, passes>>

tgVars == <<tg_warnings, tg_args, tg_pc, uploaded_files, tg_i, fw_attempts, wait_seconds, exc_seconds,
            tg_error, calls>>

promptVars == <<p_pc, p_attempt, p_elapsed, last_reason, logged_error, p_result,
                p_error, compositions, runs, error_logs, run_statuses, verdicts, blanks, info_logs>>

clientVars == <<_client, _client_lock, _LOGIN_MODE, c_pc, c_client, c_got,
                connected, created, authorized, closed, epoch, failures, returns,
                c_ops, c_drops, c_issued>>

mainVars == <<m_args, m_pc, m_prompt, m_images, m_error, stage_calls, m_logs>>

guardVars == <<s_text, s_pc, s_once, s_twice, v_first, v_second>>

queueVars == <<_queue, requests, responses, job_context, q_logs, pipeline_runs>>

retryVars == <<r_pc, r_first, r_invocations, r_error>>

vars == <<chunkVars, imgVars, tgVars, promptVars, clientVars, mainVars, guardVars, queueVars, retryVars>>

\* ------------------------------------------------------------------------
\* Bounds of the model
\* ------------------------------------------------------------------------
MaxLen == 5          \* longest text given to chunk_text
MaxLimit == 4        \* largest limit given to chunk_text
MaxParts == 2        \* most parts in one response of the image service
MaxImages == 2       \* most images handed to a delivery that uploads them
MaxPromptChunks == 2 \* the longest prompt delivered fills this many messages

\* ------------------------------------------------------------------------
\* Generic helpers
\* ------------------------------------------------------------------------
Min2(a, b) == IF a <= b THEN a ELSE b

SetMin(S) == CHOOSE x \in S : \A y \in S : x <= y

RECURSIVE Concat(_)
Concat(ss) == IF ss = <<>> THEN <<>> ELSE Head(ss) \o Concat(Tail(ss))

Range(s) == {s[i] : i \in 1..Len(s)}

\* ------------------------------------------------------------------------
\* telegram_service.chunk_text
\* ------------------------------------------------------------------------
NL == "\n"
SP == " "
Alphabet == {"a", "b", SP, NL}

Texts == UNION {[1..n -> Alphabet] : n \in 0..MaxLen}

\* Texts of 9000 characters in which no run of non-separator characters is
\* longer than 4096: spaces only; paragraphs and spaces; separators placed
\* where a full chunk ends.
ScenarioChar(v, i) ==
    IF v = 1 THEN (IF i % 1500 = 0 THEN SP ELSE "a")
    ELSE IF v = 2
    THEN (IF i % 2500 = 0 \/ i % 2500 = 1 THEN NL
          ELSE IF i % 700 = 0 THEN SP ELSE "b")
    ELSE (IF i = 4096 \/ i = 8193 THEN SP
          ELSE IF i % 3000 = 0 THEN NL ELSE "a")

ScenarioText(v) == SubSeq([i \in 1..9000 |-> ScenarioChar(v, i)], 1, 9000)

ScenarioTexts == {ScenarioText(v) : v \in 1..3}

\* The separator list handed to _split_recursive (line 128).
Separators == << <<NL, NL>>, <<NL>>, <<SP>> >>

\* str.split(separator): leftmost, non-overlapping occurrences; the pieces
\* between them, empty pieces included.
RECURSIVE split(_, _)
split(segment, separator) ==
    LET n == Len(segment)
        m == Len(separator)
        hits == {i \in 1..(n - m + 1) : SubSeq(segment, i, i + m - 1) = separator}
    IN  IF hits = {} THEN <<segment>>
        ELSE LET i == SetMin(hits)
             IN  <<SubSeq(segment, 1, i - 1)>> \o split(SubSeq(segment, i + m, n), separator)

\* Lines 124-125: the separator is put back as a unit of its own after every
\* piece but the last.
SeparatorUnitDropped(index, count, separator) == <<>>

SeparatorUnit(index, count, separator) ==
    IF index < count THEN <<separator>> ELSE <<>>

\* Lines 115-126. Python's enumerate index is 0-based; `index` here is 1-based,
\* so `index < len(pieces) - 1` reads index < Len(pieces).
RECURSIVE _split_recursive(_, _)
RECURSIVE SplitPieces(_, _, _, _)
SplitPieces(pieces, index, separator, rest) ==
    IF index > Len(pieces) THEN <<>>
    ELSE _split_recursive(pieces[index], rest)
         \o SeparatorUnit(index, Len(pieces), separator)
         \o SplitPieces(pieces, index + 1, separator, rest)

_split_recursive(segment, separators) ==
    IF separators = <<>> THEN <<segment>>
    ELSE SplitPieces(split(segment, Head(separators)), 1, Head(separators), Tail(separators))

\* Line 138: room left in the chunk being filled.
AvailableIgnoringCurrent(lim, current) == lim

Available(lim, current) == lim - Len(current)

\* Lines 137-155: the while loop that consumes one unit.
RECURSIVE ConsumeUnit(_, _, _, _)
ConsumeUnit(todo, chs, current, lim) ==
    IF todo = <<>> THEN [chunks |-> chs, current |-> current, remaining |-> todo]
    ELSE LET avail0 == Available(lim, current)
             flush == avail0 <= 0 /\ current # <<>>
             chs1 == IF flush THEN Append(chs, current) ELSE chs
             current1 == IF flush THEN <<>> ELSE current
             available == IF avail0 <= 0 THEN lim ELSE avail0
             take == Min2(Len(todo), available)
         IN  IF take <= 0
             THEN [chunks |-> chs1, current |-> current1, remaining |-> todo]
             ELSE LET current2 == current1 \o SubSeq(todo, 1, take)
                      todo2 == SubSeq(todo, take + 1, Len(todo))
                  IN  IF Len(current2) >= lim
                      THEN ConsumeUnit(todo2, Append(chs1, current2), <<>>, lim)
                      ELSE ConsumeUnit(todo2, chs1, current2, lim)

\* Lines 132-159: the for loop over the units.
RECURSIVE PackUnits(_, _, _, _)
PackUnits(units, chs, current, lim) ==
    IF units = <<>> THEN [chunks |-> chs, current |-> current]
    ELSE IF Head(units) = <<>> THEN PackUnits(Tail(units), chs, current, lim)
    ELSE LET r == ConsumeUnit(Head(units), chs, current, lim)
         IN  IF r.remaining = <<>> /\ Len(r.current) = lim
             THEN PackUnits(Tail(units), Append(r.chunks, r.current), <<>>, lim)
             ELSE PackUnits(Tail(units), r.chunks, r.current, lim)

\* Lines 165-167: fixed-width slices.
RECURSIVE FallbackSlices(_, _, _)
FallbackSlices(t, start, lim) ==
    IF start > Len(t) THEN <<>>
    ELSE <<SubSeq(t, start, Min2(start + lim - 1, Len(t)))>> \o FallbackSlices(t, start + lim, lim)

\* Lines 109-169, for limit >= 1.
chunk_text(t, lim) ==
    IF t = <<>> THEN <<>>
    ELSE IF Len(t) <= lim THEN <<t>>
    ELSE LET units == _split_recursive(t, Separators)
             packed == PackUnits(units, <<>>, <<>>, lim)
             chs == IF packed.current # <<>>
                    THEN Append(packed.chunks, packed.current)
                    ELSE packed.chunks
         IN  IF chs = <<>> THEN FallbackSlices(t, 1, lim) ELSE chs

\* ------------------------------------------------------------------------
\* gemini_service: exceptions and their classification
\* ------------------------------------------------------------------------
None == "None"

\* An attribute of an exception object: absent (or not an int), or an int.
NoAttr == [isint |-> FALSE, v |-> 0]
IntAttr(k) == [isint |-> TRUE, v |-> k]

Exc(cls, status_code, code, response_status, message) ==
    [cls |-> cls, status_code |-> status_code, code |-> code,
     response_status |-> response_status, message |-> message]

MsgPlain == <<"b", "a", "d">>
Msg503 == <<"H", "T", "T", "P", " ", "5", "0", "3">>
Msg5XX == <<"5", "X", "X">>
MsgTemporarily ==
    <<"T", "e", "m", "p", "o", "r", "a", "r", "i", "l", "y", " ",
      "U", "n", "a", "v", "a", "i", "l", "a", "b", "l", "e">>
Msg429 == <<"H", "T", "T", "P", " ", "4", "2", "9">>

\* Failures of a call to the image service that _run_with_retry may see.
ServiceErrors ==
    { Exc("ConnectionError", NoAttr, NoAttr, NoAttr, MsgPlain),
      Exc("TimeoutError", NoAttr, NoAttr, NoAttr, MsgPlain),
      Exc("ApiError", IntAttr(500), NoAttr, NoAttr, MsgPlain),
      Exc("ApiError", IntAttr(429), NoAttr, NoAttr, Msg429),
      Exc("ApiError", NoAttr, IntAttr(599), NoAttr, MsgPlain),
      Exc("ApiError", NoAttr, IntAttr(600), NoAttr, MsgPlain),
      Exc("ApiError", NoAttr, NoAttr, IntAttr(502), MsgPlain),
      Exc("ApiError", NoAttr, NoAttr, IntAttr(400), MsgPlain),
      Exc("RuntimeError", NoAttr, NoAttr, NoAttr, Msg503),
      Exc("RuntimeError", NoAttr, NoAttr, NoAttr, MsgTemporarily),
      Exc("RuntimeError", NoAttr, NoAttr, NoAttr, MsgPlain) }

\* _ImagesApiUnavailable as _call raises it (lines 113-115): its message is
\* that of the last TypeError, or the fixed signature-mismatch text.
UnavailableErrors ==
    { Exc("_ImagesApiUnavailable", NoAttr, NoAttr, NoAttr, MsgPlain),
      Exc("_ImagesApiUnavailable", NoAttr, NoAttr, NoAttr, Msg5XX) }

\* str.lower on the characters the messages use.
LowerChar(c) ==
    CASE c = "H" -> "h" [] c = "T" -> "t" [] c = "P" -> "p" [] c = "X" -> "x"
      [] c = "U" -> "u" [] c = "L" -> "l" [] c = "V" -> "v" [] c = "N" -> "n"
      [] c = "D" -> "d" [] c = "E" -> "e"
      [] OTHER -> c

lower(t) == [i \in 1..Len(t) |-> LowerChar(t[i])]

\* `needle in hay` for Python strings.
Contains(hay, needle) ==
    \E i \in 1..(Len(hay) - Len(needle) + 1) :
        \A j \in 1..Len(needle) : hay[i + j - 1] = needle[j]

\* Line 56.
transient_tokens ==
    { <<" ", "5", "0", "0">>, <<" ", "5", "0", "2">>, <<" ", "5", "0", "3">>,
      <<" ", "5", "0", "4">>, <<"5", "x", "x">>,
      <<"t", "e", "m", "p", "o", "r", "a", "r", "i", "l", "y", " ",
        "u", "n", "a", "v", "a", "i", "l", "a", "b", "l", "e">> }

\* Lines 43, 47, 52 with the upper limit included.
Is5xxInclusive(attr) == attr.isint /\ 500 <= attr.v /\ attr.v <= 600

Is5xx(attr) == attr.isint /\ 500 <= attr.v /\ attr.v < 600

\* Lines 36-57.
_is_transient_error(exc) ==
    \/ exc.cls \in {"ConnectionError", "TimeoutError"}
    \/ Is5xx(exc.status_code)
    \/ Is5xx(exc.code)
    \/ Is5xx(exc.response_status)
    \/ \E token \in transient_tokens : Contains(lower(exc.message), token)

\* Line 68: whether _run_with_retry swallows the failure and goes round again.
RetryAnyFailure(att, exc) == att = 0

ShouldRetry(att, exc) == att = 0 /\ _is_transient_error(exc)

\* ------------------------------------------------------------------------
\* gemini_service: responses and extraction
\* ------------------------------------------------------------------------
\* One part of a response: its MIME type and what its inline data holds: bytes
\* with the PNG signature, other bytes, or nothing usable (absent, empty, or
\* text that is not valid base64).
Parts ==
    { [mime_type |-> "image/png", data |-> "png"],
      [mime_type |-> "image/png", data |-> "raw"],
      [mime_type |-> "image/png", data |-> "none"],
      [mime_type |-> "image/jpeg", data |-> "png"] }

Responses == UNION {[1..k -> Parts] : k \in 0..MaxParts}

\* Lines 142-192: the payloads of the image/png parts that hold data, in
\* order; a missing signature only logs a warning. A payload is numbered by
\* its place in the production order (base = payloads produced before).
\* Lines 184-190: the payload decoded from a part is appended to the result
\* whether or not it starts with the PNG signature.
AppendedIfSigned(part, base) ==
    IF part.data = "png" THEN <<[id |-> base + 1, png |-> TRUE]>> ELSE <<>>

Appended(part, base) == <<[id |-> base + 1, png |-> part.data = "png"]>>

RECURSIVE _extract_png_bytes(_, _)
_extract_png_bytes(response, base) ==
    IF response = <<>> THEN <<>>
    ELSE LET part == Head(response)
         IN  IF part.mime_type # "image/png" \/ part.data = "none"
             THEN _extract_png_bytes(Tail(response), base)
             ELSE Appended(part, base)
                  \o _extract_png_bytes(Tail(response), base + Len(Appended(part, base)))

\* Lines 184-188: the warnings one extraction logs, one for each decoded
\* payload that does not start with the PNG signature (named by its number
\* among the payloads decoded).
RECURSIVE SignatureWarnings(_, _)
SignatureWarnings(response, base) ==
    IF response = <<>> THEN <<>>
    ELSE LET part == Head(response)
         IN  IF part.mime_type # "image/png" \/ part.data = "none"
             THEN SignatureWarnings(Tail(response), base)
             ELSE (IF part.data = "png" THEN <<>> ELSE <<base + 1>>)
                  \o SignatureWarnings(Tail(response), base + 1)

\* Lines 250-251.
KeepAll(imgs, n) == imgs

KeepLast(imgs, n) ==
    IF Len(imgs) > n THEN SubSeq(imgs, Len(imgs) - n + 1, Len(imgs)) ELSE imgs

Truncate(imgs, n) == IF Len(imgs) > n THEN SubSeq(imgs, 1, n) ELSE imgs

\* Lines 206-213 (the first failing check), or None.
N_MIN == 1
N_MAX == 4

upper(x) ==
    CASE x = "vertical" -> "VERTICAL" [] x = "square" -> "SQUARE"
      [] x = "wide" -> "WIDE" [] x = "png" -> "PNG" [] OTHER -> x

lowerWord(x) == CASE x = "PNG" -> "png" [] x = "JPG" -> "jpg" [] OTHER -> x

\* Line 209.
InRangeAny(n) == TRUE

InRange(n) == N_MIN <= n /\ n <= N_MAX

ValidationError(args) ==
    IF args.blank THEN "prompt must be a non-empty string"
    ELSE IF ~InRange(args.n) THEN "n must be between 1 and 4"
    ELSE IF lowerWord(args.fmt) \notin {"png"} THEN "unsupported image format"
    ELSE None

\* Lines 215-220.
SizeStr(aspect) ==
    LET aspect_key == upper(aspect)
    IN  CASE aspect_key = "VERTICAL" -> "1024x1536"
          [] aspect_key = "SQUARE" -> "1024x1024"
          [] OTHER -> "1024x1536"

\* ------------------------------------------------------------------------
\* telegram_service: texts, captions, rate-limit waits
\* ------------------------------------------------------------------------
\* Line 335.
TG_LIMIT == 4096
\* Lines 274 and 310.
ALBUM_LIMIT == 10
\* Line 32.
CAPTION_LIMIT == 1024
\* Lines 228 and 294.
FLOOD_CAP == 30
FLOOD_MIN == 1

\* Characters that stand for a control character and for a lone surrogate.
NUL == "NUL"
SURR == "SURR"

\* The prompts delivered: prompt k is sized to fill k messages; it is made of
\* words, lines and paragraphs, and the first one also holds a control
\* character and a character that UTF-8 cannot encode.
PromptLen(k) == (k - 1) * TG_LIMIT + 1500

PromptChar(i) ==
    IF i = 5 THEN NUL
    ELSE IF i = 9 THEN SURR
    ELSE IF i % 3001 = 0 \/ i % 3001 = 1 THEN NL
    ELSE IF i % 1709 = 0 THEN NL
    ELSE IF i % 2027 = 0 \/ i % 2027 = 7 THEN SP
    ELSE "z"

PromptText(k) == SubSeq([i \in 1..PromptLen(k) |-> PromptChar(i)], 1, PromptLen(k))

PromptIds == 1..MaxPromptChunks

\* Line 35: encode/decode with errors="ignore" drops what cannot be encoded.
Encodable(ch) == ch # SURR
\* Line 36: control characters other than newline, return and tab go.
Printable(ch) == ch # NUL

\* Lines 35-36: the characters that are kept, in order.
RECURSIVE DropChars(_)
DropChars(t) ==
    LET bad == {i \in 1..Len(t) : ~(Encodable(t[i]) /\ Printable(t[i]))}
    IN  IF bad = {} THEN t
        ELSE LET i == SetMin(bad)
             IN  SubSeq(t, 1, i - 1) \o DropChars(SubSeq(t, i + 1, Len(t)))

\* Lines 32-39.
sanitize_caption(caption, lim) ==
    LET cleaned == DropChars(caption)
    IN  IF Len(cleaned) > lim THEN SubSeq(cleaned, 1, lim) ELSE cleaned

NoImagesMarker == <<NL, "(", "n", "o", " ", "i", "m", "a", "g", "e", "s", ")">>
PromptLabel == <<"P", "r", "o", "m", "p", "t", ":">>

\* str.strip: leading and trailing whitespace goes.
strip(h) ==
    LET idx == {i \in 1..Len(h) : h[i] \notin {SP, NL, "\t"}}
    IN  IF idx = {} THEN <<>>
        ELSE SubSeq(h, SetMin(idx), CHOOSE x \in idx : \A y \in idx : y <= x)

\* header is None or a string.
NoHeader == [given |-> FALSE, str |-> <<>>]
Header(h) == [given |-> TRUE, str |-> h]
Headers == { NoHeader, Header(<<SP, SP>>), Header(<<SP, "h", "d", "r", SP>>) }

\* "\n".join(parts)
RECURSIVE join(_)
join(parts) ==
    IF Len(parts) = 0 THEN <<>>
    ELSE IF Len(parts) = 1 THEN parts[1]
    ELSE parts[1] \o <<NL>> \o join(Tail(parts))

\* Lines 325-334.
FullText(header, prompt_text) ==
    LET header_line == IF header.given /\ header.str # <<>> THEN strip(header.str) ELSE <<>>
        head_parts == IF header_line # <<>> THEN <<header_line, <<>>>> ELSE <<>>
    IN  join(head_parts \o <<PromptLabel, prompt_text>>)

\* Lines 228 and 294: min(seconds or 0, 30) or 1.
WaitUncapped(seconds) ==
    LET s == IF seconds.isint THEN seconds.v ELSE 0
    IN  IF s = 0 THEN FLOOD_MIN ELSE s

WaitSeconds(seconds) ==
    LET s == IF seconds.isint THEN seconds.v ELSE 0
        capped == Min2(s, FLOOD_CAP)
    IN  IF capped = 0 THEN FLOOD_MIN ELSE capped

\* Line 225 and line 292: a rate-limit signal is fatal from the second attempt on.
FloodNeverFatal(att) == FALSE

FloodIsFatal(att) == att >= 2

\* The suggested waits a rate-limit signal carries.
FloodSeconds == {NoAttr, IntAttr(0), IntAttr(7), IntAttr(30), IntAttr(31)}

FloodWaitError(seconds) == [cls |-> "FloodWaitError", seconds |-> seconds]
OtherChannelErrors ==
    { [cls |-> "ChatWriteForbiddenError", seconds |-> NoAttr],
      [cls |-> "RPCError", seconds |-> NoAttr] }
LocalError(cls) == [cls |-> cls, seconds |-> NoAttr]

\* The failures the model lets a call meet inside generate_images.
CallErrors ==
    { Exc("ConnectionError", NoAttr, NoAttr, NoAttr, MsgPlain),
      Exc("ApiError", IntAttr(500), NoAttr, NoAttr, MsgPlain),
      Exc("ApiError", IntAttr(429), NoAttr, NoAttr, Msg429),
      Exc("RuntimeError", NoAttr, NoAttr, NoAttr, MsgPlain) }

\* Line 64: range(2).
RETRY_RANGE == 2
\* Line 229.
max_attempts == 2

\* The entry of the history for a func() that returned.
Returned == Exc("returned", NoAttr, NoAttr, NoAttr, <<>>)

RaisedError(cls, what) == Exc(cls, NoAttr, NoAttr, NoAttr, <<what>>)

\* No exception.
NoFailure == Exc("None", NoAttr, NoAttr, NoAttr, <<>>)

IdleRetry ==
    /\ r_pc = "idle"
    /\ r_first = NoFailure
    /\ r_invocations = 0
    /\ r_error = NoFailure

\* ------------------------------------------------------------------------
\* prompt_guard: sanitize and validate_prompt
\* ------------------------------------------------------------------------
TAB == "\t"
\* The backtick (a string literal cannot hold one).
TICK == "BACKTICK"
\* Characters that \s matches and str.strip removes.
Whitespace == {SP, NL, TAB}

\* Lines 8-49.
FORBIDDEN_KEYWORDS ==
    { <<"n", "u", "d", "e">>,
      <<"n", "u", "d", "i", "t", "y">>,
      <<"l", "i", "n", "g", "e", "r", "i", "e">>,
      <<"b", "i", "k", "i", "n", "i">>,
      <<"u", "n", "d", "e", "r", "w", "e", "a", "r">>,
      <<"s", "e", "e", "-", "t", "h", "r", "o", "u", "g", "h">>,
      <<"t", "r", "a", "n", "s", "p", "a", "r", "e", "n", "t">>,
      <<"s", "h", "e", "e", "r">>,
      <<"e", "x", "p", "l", "i", "c", "i", "t">>,
      <<"e", "r", "o", "t", "i", "c">>,
      <<"f", "e", "t", "i", "s", "h">>,
      <<"l", "a", "t", "e", "x", " ", "c", "a", "t", "s", "u", "i", "t">>,
      <<"l", "a", "t", "e", "x", " ", "b", "o", "d", "y", "s", "u", "i", "t">>,
      <<"l", "o", "l", "i", "t", "a">>,
      <<"s", "c", "h", "o", "o", "l", "g", "i", "r", "l">>,
      <<"t", "e", "e", "n">>,
      <<"u", "n", "d", "e", "r", "a", "g", "e">>,
      <<"m", "i", "n", "o", "r">>,
      <<"g", "u", "c", "c", "i">>,
      <<"p", "r", "a", "d", "a">>,
      <<"c", "h", "a", "n", "e", "l">>,
      <<"v", "e", "r", "s", "a", "c", "e">>,
      <<"b", "a", "l", "e", "n", "c", "i", "a", "g", "a">>,
      <<"d", "i", "o", "r">>,
      <<"f", "e", "n", "d", "i">>,
      <<"y", "s", "l">>,
      <<"s", "a", "i", "n", "t", " ", "l", "a", "u", "r", "e", "n", "t">>,
      <<"l", "o", "u", "i", "s", " ", "v", "u", "i", "t", "t", "o", "n">>,
      <<"l", "v">>,
      <<"h", "e", "r", "m", "e", "s">>,
      <<"b", "u", "r", "b", "e", "r", "r", "y">>,
      <<"c", "e", "l", "i", "n", "e">>,
      <<"a", "r", "m", "a", "n", "i">>,
      <<"v", "a", "l", "e", "n", "t", "i", "n", "o">>,
      <<"g", "i", "v", "e", "n", "c", "h", "y">>,
      <<"c", "o", "a", "c", "h">>,
      <<"b", "o", "t", "t", "e", "g", "a">>,
      <<"m", "i", "u", " ", "m", "i", "u">>,
      <<"d", "o", "l", "c", "e">>,
      <<"g", "a", "b", "b", "a", "n", "a">> }

\* Line 51.
REQUIRED_KEYWORDS ==
    { <<"l", "e", "a", "t", "h", "e", "r">>,
      <<"v", "e", "r", "t", "i", "c", "a", "l">> }

\* Lines 53-54.
MIN_LENGTH == 200
MAX_LENGTH == 900

\* str.replace(fence, "", 1): only the first occurrence goes.
RemoveFirstFence(t) ==
    LET n == Len(t)
        hits == {i \in 1..(n - 2) : t[i] = TICK /\ t[i + 1] = TICK /\ t[i + 2] = TICK}
    IN  IF hits = {} THEN t
        ELSE SubSeq(t, 1, SetMin(hits) - 1) \o SubSeq(t, SetMin(hits) + 3, n)

\* Line 60: str.replace removes the occurrences of the fence found from the
\* left, without overlap.
RECURSIVE RemoveFences(_)
RemoveFences(t) ==
    LET n == Len(t)
        hits == {i \in 1..(n - 2) : t[i] = TICK /\ t[i + 1] = TICK /\ t[i + 2] = TICK}
    IN  IF hits = {} THEN t
        ELSE LET i == SetMin(hits)
             IN  SubSeq(t, 1, i - 1) \o RemoveFences(SubSeq(t, i + 3, n))

\* Line 61: every maximal run of whitespace becomes one space.
RECURSIVE CollapseWhitespace(_)
CollapseWhitespace(t) ==
    LET n == Len(t)
        ws == {i \in 1..n : t[i] \in Whitespace}
    IN  IF ws = {} THEN t
        ELSE LET i == SetMin(ws)
                 after == {j \in (i + 1)..n : t[j] \notin Whitespace}
                 j == IF after = {} THEN n + 1 ELSE SetMin(after)
             IN  SubSeq(t, 1, i - 1) \o <<SP>> \o CollapseWhitespace(SubSeq(t, j, n))

\* Lines 57-62.
sanitize(t) == strip(CollapseWhitespace(RemoveFences(t)))

\* Lines 81-84.
TooShortInclusive(n) == n <= MIN_LENGTH

TooShort(n) == n < MIN_LENGTH

TooLong(n) == n > MAX_LENGTH

\* The verdict validate_prompt returns: (ok, note).
Verdict(ok, note) == [ok |-> ok, note |-> note]

\* validate_prompt with the length checks made before the keyword checks.
validate_lengths_first(t) ==
    LET sanitized == sanitize(t)
        normalized == lower(sanitized)
        forbidden == {k \in FORBIDDEN_KEYWORDS : Contains(normalized, k)}
        missing == {k \in REQUIRED_KEYWORDS : ~Contains(normalized, k)}
    IN  IF sanitized = <<>> THEN {Verdict(FALSE, <<"empty_prompt">>)}
        ELSE IF TooShort(Len(sanitized)) THEN {Verdict(FALSE, <<"prompt_too_short">>)}
        ELSE IF TooLong(Len(sanitized)) THEN {Verdict(FALSE, <<"prompt_too_long">>)}
        ELSE IF forbidden # {}
             THEN {Verdict(FALSE, <<"forbidden_keyword", k>>) : k \in forbidden}
        ELSE IF missing # {}
             THEN {Verdict(FALSE, <<"missing_required", k>>) : k \in missing}
        ELSE {Verdict(TRUE, <<>>)}

\* Lines 65-86. The keywords are kept in sets, so when several keywords are
\* the reason the one reported is whichever the iteration meets first: the
\* value is the set of verdicts a call can return.
validate_prompt(t) ==
    LET sanitized == sanitize(t)
        normalized == lower(sanitized)
        forbidden == {k \in FORBIDDEN_KEYWORDS : Contains(normalized, k)}
        missing == {k \in REQUIRED_KEYWORDS : ~Contains(normalized, k)}
    IN  IF sanitized = <<>> THEN {Verdict(FALSE, <<"empty_prompt">>)}
        ELSE IF forbidden # {}
             THEN {Verdict(FALSE, <<"forbidden_keyword", k>>) : k \in forbidden}
        ELSE IF missing # {}
             THEN {Verdict(FALSE, <<"missing_required", k>>) : k \in missing}
        ELSE IF TooShort(Len(sanitized)) THEN {Verdict(FALSE, <<"prompt_too_short">>)}
        ELSE IF TooLong(Len(sanitized)) THEN {Verdict(FALSE, <<"prompt_too_long">>)}
        ELSE {Verdict(TRUE, <<>>)}

\* ------------------------------------------------------------------------
\* assistant_service: the texts and statuses the external generator returns
\* ------------------------------------------------------------------------
Fence == <<TICK, TICK, TICK>>
Fill(n) == [i \in 1..n |-> "z"]
Leather == <<"l", "e", "a", "t", "h", "e", "r">>
Vertical == <<"v", "e", "r", "t", "i", "c", "a", "l">>
\* "leather vertical " followed by filler, n characters in all.
Plain(n) == Leather \o <<SP>> \o Vertical \o <<SP>> \o Fill(n - 17)

\* The raw texts tried: texts on both sides of each length limit, a text in
\* a markdown fence with mixed case and whitespace runs, a forbidden keyword
\* that a removed fence puts together, two forbidden keywords, a missing
\* keyword, a lone run of four backticks, and texts that sanitize to nothing.
RawTexts ==
    { Plain(MIN_LENGTH - 1),
      Plain(MIN_LENGTH),
      Plain(MAX_LENGTH),
      Plain(MAX_LENGTH + 1),
      Fence \o <<NL, SP, "L">> \o Tail(Leather) \o <<SP, TAB, NL, "V">> \o Tail(Vertical)
          \o <<NL>> \o Fill(MIN_LENGTH) \o <<NL>> \o Fence \o <<NL>>,
      <<"n", "u">> \o Fence \o <<"d", "e", SP>> \o Plain(MIN_LENGTH),
      <<"N", "u", "d", "e", SP, "l", "v", SP>> \o Plain(MIN_LENGTH),
      Leather \o <<SP>> \o Fill(MIN_LENGTH),
      <<TICK>> \o Fence \o <<SP>> \o Plain(MIN_LENGTH),
      Fence \o <<SP, NL>> \o Fence,
      <<>> }

\* Run statuses (line 38 names the terminal ones).
TerminalStatuses == {"completed", "failed", "cancelled", "expired"}

\* Lines 21-22, in half-seconds.
POLL_INTERVAL == 1
POLL_TIMEOUT == 180

\* Line 76: range(2).
PROMPT_ATTEMPTS == 2

\* How long one retrieve of the run may take, in half-seconds.
MaxRetrieve == 60
RetrieveDurations == {0, 1, MaxRetrieve}

NoReason == <<"None">>

\* An exception of generate_prompt_text: its class and its message.
PromptError(cls, msg) == [cls |-> cls, msg |-> msg]
NoError == PromptError("None", <<>>)

\* ------------------------------------------------------------------------
\* Each operation is checked in a specification of its own; the variables of
\* the operations that are not running keep these values.
\* ------------------------------------------------------------------------
IdleChunk ==
    /\ text = <<>>
    /\ limit = 0
    /\ chunks = <<>>
    /\ chunk_pc = "idle"

IdleImages ==
    /\ g_args = None
    /\ images_api = None
    /\ images = <<>>
    /\ attempts = 0
    /\ remaining = 0
    /\ collected = <<>>
    /\ model_i = 0
    /\ attempt = 0
    /\ last_error = None
    /\ img_pc = "idle"
    /\ g_result = <<>>
    /\ g_error = None
    /\ produced = <<>>
    /\ rlog = <<>>
    /\ retry_exit = "none"
    /\ passes = <<>>
    /\ sig_warnings = <<>>

IdleDelivery ==
    /\ tg_args = None
    /\ tg_pc = "idle"
    /\ uploaded_files = <<>>
    /\ tg_i = 0
    /\ fw_attempts = 0
    /\ wait_seconds = 0
    /\ exc_seconds = NoAttr
    /\ tg_error = None
    /\ calls = <<>>
    /\ tg_warnings = <<>>

IdlePrompt ==
    /\ p_pc = "idle"
    /\ p_attempt = 0
    /\ p_elapsed = 0
    /\ last_reason = NoReason
    /\ logged_error = FALSE
    /\ p_result = <<>>
    /\ p_error = NoError
    /\ compositions = 0
    /\ runs = 0
    /\ error_logs = <<>>
    /\ run_statuses = <<>>
    /\ verdicts = <<>>
    /\ blanks = 0
    /\ info_logs = <<>>

\* The callers of _ensure_client and close_client, and the clients they may
\* construct.
MaxCallers == 2
MaxClients == 2
Callers == 1..MaxCallers
Clients == 1..MaxClients

\* No channel operation issued yet.
NoOp == [issued |-> FALSE, client |-> 0, live |-> FALSE, closed |-> FALSE, epoch |-> 0]

IdleClient ==
    /\ _client = 0
    /\ _client_lock = 0
    /\ _LOGIN_MODE = FALSE
    /\ c_pc = [c \in Callers |-> "idle"]
    /\ c_client = [c \in Callers |-> 0]
    /\ c_got = [c \in Callers |-> 0]
    /\ connected = [k \in Clients |-> FALSE]
    /\ created = 0
    /\ authorized = {}
    /\ closed = {}
    /\ epoch = 0
    /\ failures = 0
    /\ returns = {}
    /\ c_ops = 0
    /\ c_drops = 0
    /\ c_issued = NoOp

IdleMain ==
    /\ m_args = None
    /\ m_pc = "idle"
    /\ m_prompt = <<>>
    /\ m_images = <<>>
    /\ m_error = NoError
    /\ stage_calls = <<>>
    /\ m_logs = <<>>

IdleGuard ==
    /\ s_text = <<>>
    /\ s_pc = "idle"
    /\ s_once = <<>>
    /\ s_twice = <<>>
    /\ v_first = None
    /\ v_second = None

IdleQueue ==
    /\ _queue = <<>>
    /\ requests = 0
    /\ responses = <<>>
    /\ job_context = 0
    /\ q_logs = <<>>
    /\ pipeline_runs = {}

\* ------------------------------------------------------------------------
\* Specification of chunk_text
\* ------------------------------------------------------------------------
InitChunk ==
    /\ IdleClient
    /\ IdleMain
    /\ IdleGuard
    /\ IdleQueue
    /\ IdleRetry
    /\ IdlePrompt
    /\ IdleImages
    /\ IdleDelivery
    /\ \/ text \in Texts /\ limit \in 0..MaxLimit
       \/ text \in ScenarioTexts /\ limit = TG_LIMIT
    /\ chunks = <<>>
    /\ chunk_pc = "call"

\* Lines 106-107: a non-positive limit is refused.
ChunkTextRaise ==
    /\ chunk_pc = "call"
    /\ limit <= 0
    /\ chunk_pc' = "ValueError"
    /\ UNCHANGED <<text, limit, chunks>>
    /\ UNCHANGED <<imgVars, tgVars, promptVars, clientVars, mainVars, guardVars, queueVars, retryVars>>

ChunkTextReturn ==
    /\ chunk_pc = "call"
    /\ limit > 0
    /\ chunks' = chunk_text(text, limit)
    /\ chunk_pc' = "returned"
    /\ UNCHANGED <<text, limit>>
    /\ UNCHANGED <<imgVars, tgVars, promptVars, clientVars, mainVars, guardVars, queueVars, retryVars>>

NextChunk == ChunkTextRaise \/ ChunkTextReturn

SpecChunk == InitChunk /\ [][NextChunk]_vars

\* ------------------------------------------------------------------------
\* Specification of generate_images (with _run_with_retry,
\* _generate_with_images_api and _generate_with_model inlined)
\* ------------------------------------------------------------------------
\* The arguments tried: every count from one below to one above the allowed
\* range; the aspect and the format vary for the counts up to 1.
Arguments ==
    { args \in [blank : BOOLEAN, n : (N_MIN - 1)..(N_MAX + 1),
                aspect : {"VERTICAL", "square", "wide"},
                fmt : {"png", "PNG", "jpg"}] :
        \/ args.n <= N_MIN
        \/ (args.aspect = "VERTICAL" /\ args.fmt = "png" /\ ~args.blank) }

InitImages ==
    /\ IdleClient
    /\ IdleMain
    /\ IdleGuard
    /\ IdleQueue
    /\ IdleRetry
    /\ IdlePrompt
    /\ IdleChunk
    /\ IdleDelivery
    /\ g_args \in Arguments
    /\ images_api \in {"missing", "not_callable", "callable"}
    /\ images = <<>>
    /\ attempts = 0
    /\ remaining = 0
    /\ collected = <<>>
    /\ model_i = 0
    /\ attempt = 0
    /\ last_error = None
    /\ img_pc = "call"
    /\ g_result = <<>>
    /\ g_error = None
    /\ produced = <<>>
    /\ rlog = <<>>
    /\ retry_exit = "none"
    /\ passes = <<>>
    /\ sig_warnings = <<>>

\* The outcome of one func() is appended to the history of this
\* _run_with_retry; the first invocation (attempt 0) starts the history.
Logged(outcome) == IF attempt = 0 THEN <<outcome>> ELSE Append(rlog, outcome)

\* Lines 206-213: a bad argument is refused before the try block.
GenValidateRaise ==
    /\ img_pc = "call"
    /\ ValidationError(g_args) # None
    /\ img_pc' = "raised"
    /\ g_error' = RaisedError("ValueError", ValidationError(g_args))
    /\ UNCHANGED <<passes, g_args, images_api, images, attempts, remaining, collected, model_i,
                   attempt, last_error, g_result, produced, rlog, retry_exit>>
    /\ UNCHANGED sig_warnings
    /\ UNCHANGED <<chunkVars, tgVars, promptVars, clientVars, mainVars, guardVars, queueVars, retryVars>>

\* Lines 227-229.
GenEnter ==
    /\ img_pc = "call"
    /\ ValidationError(g_args) = None
    /\ images' = <<>>
    /\ attempts' = 0
    /\ img_pc' = "loop"
    /\ UNCHANGED <<passes, g_args, images_api, remaining, collected, model_i, attempt,
                   last_error, g_result, g_error, produced, rlog, retry_exit>>
    /\ UNCHANGED sig_warnings
    /\ UNCHANGED <<chunkVars, tgVars, promptVars, clientVars, mainVars, guardVars, queueVars, retryVars>>

\* One pass of the loop of lines 232-245: the count it asks for, what became
\* of the Images surface in it, the generate_content calls it concluded, and
\* whether each of those calls returned exactly one image.
Pass(need, surface) ==
    [need |-> need, preferred |-> surface, stable |-> 0, one_each |-> TRUE]

\* Line 245: images.extend(new_images).
ExtendReplacing(imgs, new_images) == new_images

Extended(imgs, new_images) == imgs \o new_images

\* Line 235: the Images surface is tried in the first pass only.
UsePreferredAlways(att) == TRUE

UsePreferred(att) == att = 0

\* Line 238: except _ImagesApiUnavailable.
CaughtNever(exc) == FALSE

IsUnavailable(exc) == exc.cls = "_ImagesApiUnavailable"

\* Line 247: not images.
FewerThanAsked(imgs, n) == Len(imgs) < n

NoImages(imgs, n) == imgs = <<>>

\* Line 232.
LoopCondition == Len(images) < g_args.n /\ attempts < max_attempts

\* Lines 121-125: _generate_with_model(prompt_hint, remaining) is entered.
EnterModel ==
    /\ img_pc' = "model"
    /\ collected' = <<>>
    /\ model_i' = 0
    /\ attempt' = 0
    /\ last_error' = None

\* Lines 233-237, 80-93, 117: first pass, the Images surface has a callable
\* generate: _run_with_retry(_call) starts.
PassPreferred ==
    /\ img_pc = "loop"
    /\ LoopCondition
    /\ UsePreferred(attempts)
    /\ images_api = "callable"
    /\ remaining' = g_args.n - Len(images)
    /\ img_pc' = "images_api"
    /\ attempt' = 0
    /\ last_error' = None
    /\ rlog' = <<>>
    /\ retry_exit' = "running"
    /\ passes' = Append(passes, Pass(g_args.n - Len(images), "called"))
    /\ UNCHANGED <<g_args, images_api, images, attempts, collected, model_i,
                   g_result, g_error, produced>>
    /\ UNCHANGED sig_warnings
    /\ UNCHANGED <<chunkVars, tgVars, promptVars, clientVars, mainVars, guardVars, queueVars, retryVars>>

\* Lines 80-91, 238-239: first pass, the surface is missing or its generate is
\* not callable: _ImagesApiUnavailable is caught and the stable surface is used.
PassPreferredUnavailable ==
    /\ img_pc = "loop"
    /\ LoopCondition
    /\ UsePreferred(attempts)
    /\ images_api \in {"missing", "not_callable"}
    /\ remaining' = g_args.n - Len(images)
    /\ EnterModel
    /\ rlog' = <<>>
    /\ retry_exit' = "none"
    /\ passes' = Append(passes, Pass(g_args.n - Len(images), images_api))
    /\ UNCHANGED <<g_args, images_api, images, attempts, g_result, g_error,
                   produced>>
    /\ UNCHANGED sig_warnings
    /\ UNCHANGED <<chunkVars, tgVars, promptVars, clientVars, mainVars, guardVars, queueVars, retryVars>>

\* Lines 240-241: second pass.
PassStable ==
    /\ img_pc = "loop"
    /\ LoopCondition
    /\ ~UsePreferred(attempts)
    /\ remaining' = g_args.n - Len(images)
    /\ EnterModel
    /\ rlog' = <<>>
    /\ retry_exit' = "none"
    /\ passes' = Append(passes, Pass(g_args.n - Len(images), "skipped"))
    /\ UNCHANGED <<g_args, images_api, images, attempts, g_result, g_error,
                   produced>>
    /\ UNCHANGED sig_warnings
    /\ UNCHANGED <<chunkVars, tgVars, promptVars, clientVars, mainVars, guardVars, queueVars, retryVars>>

\* Lines 93-118, 243-245: _call returns a response; its payloads are the new
\* images of this pass.
ImagesApiReturn ==
    /\ img_pc = "images_api"
    /\ \E response \in Responses :
        LET new_images == _extract_png_bytes(response, Len(produced))
        IN  /\ images' = Extended(images, new_images)
            /\ produced' = produced \o new_images
            /\ sig_warnings' = sig_warnings \o SignatureWarnings(response, Len(produced))
    /\ attempts' = attempts + 1
    /\ img_pc' = "loop"
    /\ attempt' = 0
    /\ last_error' = None
    /\ rlog' = Logged(Returned)
    /\ retry_exit' = "returned"
    /\ passes' = [passes EXCEPT ![Len(passes)].preferred = "returned"]
    /\ UNCHANGED <<g_args, images_api, remaining, collected, model_i, g_result, g_error>>
    /\ UNCHANGED <<chunkVars, tgVars, promptVars, clientVars, mainVars, guardVars, queueVars, retryVars>>

\* Lines 67-70: _call raised, and _run_with_retry goes round again.
ImagesApiRetry ==
    /\ img_pc = "images_api"
    /\ \E exc \in CallErrors \cup UnavailableErrors :
        /\ ShouldRetry(attempt, exc)
        /\ attempt + 1 < RETRY_RANGE
        /\ last_error' = exc
        /\ rlog' = Logged(exc)
    /\ attempt' = attempt + 1
    /\ UNCHANGED <<passes, g_args, images_api, images, attempts, remaining, collected, model_i,
                   img_pc, g_result, g_error, produced, retry_exit>>
    /\ UNCHANGED sig_warnings
    /\ UNCHANGED <<chunkVars, tgVars, promptVars, clientVars, mainVars, guardVars, queueVars, retryVars>>

\* The failure leaves _run_with_retry (line 71, or lines 72-73 when the loop
\* is exhausted).
Propagates(exc) ==
    \/ ~ShouldRetry(attempt, exc)
    \/ attempt + 1 >= RETRY_RANGE

\* Lines 71, 238-239: _ImagesApiUnavailable leaves _run_with_retry and is
\* caught by generate_images, which falls back to the stable surface.
ImagesApiFallback ==
    /\ img_pc = "images_api"
    /\ \E exc \in CallErrors \cup UnavailableErrors :
        /\ Propagates(exc)
        /\ IsUnavailable(exc)
        /\ rlog' = Logged(exc)
    /\ retry_exit' = "raised"
    /\ EnterModel
    /\ passes' = [passes EXCEPT ![Len(passes)].preferred = "rejected"]
    /\ UNCHANGED <<g_args, images_api, images, attempts, remaining, g_result,
                   g_error, produced>>
    /\ UNCHANGED sig_warnings
    /\ UNCHANGED <<chunkVars, tgVars, promptVars, clientVars, mainVars, guardVars, queueVars, retryVars>>

\* Lines 71, 263-271: any other failure leaves generate_images.
ImagesApiRaise ==
    /\ img_pc = "images_api"
    /\ \E exc \in CallErrors \cup UnavailableErrors :
        /\ Propagates(exc)
        /\ ~IsUnavailable(exc)
        /\ rlog' = Logged(exc)
        /\ g_error' = exc
    /\ retry_exit' = "raised"
    /\ img_pc' = "raised"
    /\ passes' = [passes EXCEPT ![Len(passes)].preferred = "raised"]
    /\ UNCHANGED <<g_args, images_api, images, attempts, remaining, collected, model_i,
                   attempt, last_error, g_result, produced>>
    /\ UNCHANGED sig_warnings
    /\ UNCHANGED <<chunkVars, tgVars, promptVars, clientVars, mainVars, guardVars, queueVars, retryVars>>

\* Lines 127-137: one generate_content call returns.
ModelCallReturn ==
    /\ img_pc = "model"
    /\ model_i < remaining
    /\ \E response \in Responses :
        LET extracted == _extract_png_bytes(response, Len(produced))
        IN  /\ collected' = collected \o extracted
            /\ produced' = produced \o extracted
            /\ sig_warnings' = sig_warnings \o SignatureWarnings(response, Len(produced))
            /\ passes' = [passes EXCEPT ![Len(passes)] =
                              [@ EXCEPT !.stable = @ + 1,
                                        !.one_each = @ /\ Len(extracted) = 1]]
    /\ model_i' = model_i + 1
    /\ attempt' = 0
    /\ last_error' = None
    /\ rlog' = Logged(Returned)
    /\ retry_exit' = "returned"
    /\ UNCHANGED <<g_args, images_api, images, attempts, remaining, img_pc,
                   g_result, g_error>>
    /\ UNCHANGED <<chunkVars, tgVars, promptVars, clientVars, mainVars, guardVars, queueVars, retryVars>>

\* Lines 67-70.
ModelCallRetry ==
    /\ img_pc = "model"
    /\ model_i < remaining
    /\ \E exc \in CallErrors :
        /\ ShouldRetry(attempt, exc)
        /\ attempt + 1 < RETRY_RANGE
        /\ last_error' = exc
        /\ rlog' = Logged(exc)
    /\ attempt' = attempt + 1
    /\ retry_exit' = "running"
    /\ UNCHANGED <<passes, g_args, images_api, images, attempts, remaining, collected, model_i,
                   img_pc, g_result, g_error, produced>>
    /\ UNCHANGED sig_warnings
    /\ UNCHANGED <<chunkVars, tgVars, promptVars, clientVars, mainVars, guardVars, queueVars, retryVars>>

\* Lines 71, 263-271: the failure leaves _generate_with_model and
\* generate_images; what was collected is lost.
ModelCallRaise ==
    /\ img_pc = "model"
    /\ model_i < remaining
    /\ \E exc \in CallErrors :
        /\ Propagates(exc)
        /\ rlog' = Logged(exc)
        /\ g_error' = exc
    /\ retry_exit' = "raised"
    /\ img_pc' = "raised"
    /\ passes' = [passes EXCEPT ![Len(passes)] =
                      [@ EXCEPT !.stable = @ + 1, !.one_each = FALSE]]
    /\ UNCHANGED <<g_args, images_api, images, attempts, remaining, collected, model_i,
                   attempt, last_error, g_result, produced>>
    /\ UNCHANGED sig_warnings
    /\ UNCHANGED <<chunkVars, tgVars, promptVars, clientVars, mainVars, guardVars, queueVars, retryVars>>

\* Lines 139, 243-245: _generate_with_model returns what it collected.
ModelDone ==
    /\ img_pc = "model"
    /\ model_i >= remaining
    /\ images' = Extended(images, collected)
    /\ attempts' = attempts + 1
    /\ collected' = <<>>
    /\ img_pc' = "loop"
    /\ rlog' = <<>>
    /\ retry_exit' = "none"
    /\ UNCHANGED <<passes, g_args, images_api, remaining, model_i, attempt, last_error,
                   g_result, g_error, produced>>
    /\ UNCHANGED sig_warnings
    /\ UNCHANGED <<chunkVars, tgVars, promptVars, clientVars, mainVars, guardVars, queueVars, retryVars>>

\* Lines 247-248.
GenRaiseNoImages ==
    /\ img_pc = "loop"
    /\ ~LoopCondition
    /\ NoImages(images, g_args.n)
    /\ g_error' = RaisedError("RuntimeError", "no_images_generated")
    /\ img_pc' = "raised"
    /\ UNCHANGED <<passes, g_args, images_api, images, attempts, remaining, collected, model_i,
                   attempt, last_error, g_result, produced, rlog, retry_exit>>
    /\ UNCHANGED sig_warnings
    /\ UNCHANGED <<chunkVars, tgVars, promptVars, clientVars, mainVars, guardVars, queueVars, retryVars>>

\* Lines 250-262.
GenReturn ==
    /\ img_pc = "loop"
    /\ ~LoopCondition
    /\ ~NoImages(images, g_args.n)
    /\ g_result' = Truncate(images, g_args.n)
    /\ img_pc' = "returned"
    /\ UNCHANGED <<passes, g_args, images_api, images, attempts, remaining, collected, model_i,
                   attempt, last_error, g_error, produced, rlog, retry_exit>>
    /\ UNCHANGED sig_warnings
    /\ UNCHANGED <<chunkVars, tgVars, promptVars, clientVars, mainVars, guardVars, queueVars, retryVars>>

NextImages ==
    \/ GenValidateRaise
    \/ GenEnter
    \/ PassPreferred
    \/ PassPreferredUnavailable
    \/ PassStable
    \/ ImagesApiReturn
    \/ ImagesApiRetry
    \/ ImagesApiFallback
    \/ ImagesApiRaise
    \/ ModelCallReturn
    \/ ModelCallRetry
    \/ ModelCallRaise
    \/ ModelDone
    \/ GenRaiseNoImages
    \/ GenReturn

SpecImages == InitImages /\ [][NextImages]_vars

\* ------------------------------------------------------------------------
\* Specification of the delivery: send_images_and_prompt, send_text and
\* send_images_with_caption, with _run_with_floodwait_retry and
\* _execute_with_retry inlined
\* ------------------------------------------------------------------------
\* The image lists delivered: none, up to MaxImages (all PNG, or the last one
\* without the PNG signature), and one more than an album holds.
PngList(k) == [i \in 1..k |-> [id |-> i, png |-> TRUE]]

ImageLists ==
    {PngList(k) : k \in 0..MaxImages}
    \cup {[PngList(k) EXCEPT ![k].png = FALSE] : k \in 1..MaxImages}
    \cup {PngList(ALBUM_LIMIT + 1)}

DeliveryArguments ==
    [entry : {"send_images_and_prompt"}, images : ImageLists,
     prompt : PromptIds, header : Headers]
    \cup [entry : {"send_images_with_caption"}, images : ImageLists,
          prompt : PromptIds, header : {NoHeader}]
    \cup [entry : {"send_text"}, images : {<<>>}, prompt : PromptIds, header : {NoHeader}]

\* Lines 277-279: the prompt_text that reaches send_images_and_prompt.
PromptTextOf(args) ==
    IF args.entry = "send_images_with_caption"
    THEN sanitize_caption(PromptText(args.prompt), CAPTION_LIMIT)
    ELSE PromptText(args.prompt)

\* Lines 270-271 and line 247: the message send_text is given.
TextMessageBare(args) ==
    IF args.entry = "send_images_with_caption"
    THEN sanitize_caption(PromptText(args.prompt), CAPTION_LIMIT)
    ELSE PromptText(args.prompt)

TextMessage(args) ==
    IF args.entry = "send_images_with_caption"
    THEN sanitize_caption(PromptText(args.prompt), CAPTION_LIMIT) \o NoImagesMarker
    ELSE PromptText(args.prompt)

\* What the history keeps of a text handed to the channel: its length and
\* its two ends.
Digest(t) ==
    [length |-> Len(t),
     first |-> SubSeq(t, 1, Min2(Len(t), 8)),
     last |-> SubSeq(t, Len(t) - Min2(Len(t), 12) + 1, Len(t))]

\* The part of the arguments that the texts depend on.
TextKey(args) == [entry |-> args.entry, prompt |-> args.prompt, header |-> args.header]

TextKeys == {TextKey(args) : args \in DeliveryArguments}

\* Lines 334-335 worked out once for every argument tried: the chunks of
\* full_text, each kept as its digest.
ChunkTable ==
    { <<key, LET cs == chunk_text(FullText(key.header, PromptTextOf(key)), TG_LIMIT)
             IN  [i \in 1..Len(cs) |-> Digest(cs[i])]>> : key \in TextKeys }

\* Line 247 likewise: the digest of the message of send_text.
MessageTable == { <<key, Digest(TextMessage(key))>> : key \in TextKeys }

TgChunks == (CHOOSE p \in ChunkTable : p[1] = TextKey(tg_args))[2]

TgMessage == (CHOOSE p \in MessageTable : p[1] = TextKey(tg_args))[2]

\* client.upload_file returns a handle for the bytes it was given.
Handle(image) == [file |-> image]

\* Lines 274 and 310: more images than an album holds.
TooManyNever(imgs) == FALSE

TooManyImages(imgs) == Len(imgs) > ALBUM_LIMIT

\* Line 313: the loop takes the images in the order given.
ImageAtReversed(imgs, i) == imgs[Len(imgs) - i + 1]

ImageAt(imgs, i) == imgs[i]

\* Line 322: file=uploaded_files, the whole list in one send_file call.
AlbumFirstOnly(files) == SubSeq(files, 1, 1)

AlbumFiles(files) == files

\* Lines 42-54: ensure_png_bytes returns the bytes it was given; a payload
\* without the PNG signature is warned about and passed on as it is.
ensure_png_bytes(data) == data

\* Lines 48-53: the warnings logged, after ensure_png_bytes saw data.
Warned(warnings, data) == IF data.png THEN warnings ELSE Append(warnings, data)

\* The channel call the delivery is about to make.
ChannelOp ==
    CASE tg_pc = "sip_upload" ->
            [op |-> "upload_file", arg |-> ensure_png_bytes(ImageAt(tg_args.images, tg_i))]
      [] tg_pc = "sip_album" -> [op |-> "send_file", arg |-> AlbumFiles(uploaded_files)]
      [] tg_pc = "sip_send" ->
            [op |-> "send_message", arg |-> [chunk |-> tg_i, text |-> TgChunks[tg_i]]]
      [] tg_pc = "st_send" ->
            [op |-> "send_message", arg |-> [chunk |-> 0, text |-> TgMessage]]

CallEntry(att, res) ==
    [op |-> ChannelOp.op, arg |-> ChannelOp.arg, attempts |-> att, res |-> res]

\* _run_with_floodwait_retry is running operation() (lines 315, 321, 338).
InFloodwaitWrapper ==
    \/ tg_pc \in {"sip_upload", "sip_album"}
    \/ (tg_pc = "sip_send" /\ tg_i <= Len(TgChunks))

InitDelivery ==
    /\ IdleClient
    /\ IdleMain
    /\ IdleGuard
    /\ IdleQueue
    /\ IdleRetry
    /\ IdlePrompt
    /\ IdleChunk
    /\ IdleImages
    /\ tg_args \in DeliveryArguments
    /\ tg_pc = "call"
    /\ uploaded_files = <<>>
    /\ tg_i = 0
    /\ fw_attempts = 0
    /\ wait_seconds = 0
    /\ exc_seconds = NoAttr
    /\ tg_error = None
    /\ calls = <<>>
    /\ tg_warnings = <<>>

\* Lines 350-352 (and the bare raise of lines 227, 237, 240, 293): the
\* exception leaves the delivery.
Swallow(exc) ==
    /\ tg_pc' = tg_pc
    /\ tg_error' = exc

Raise(exc) ==
    /\ tg_pc' = "raised"
    /\ tg_error' = exc

\* Line 299: send_images_and_prompt is called directly.
CallSendImagesAndPrompt ==
    /\ tg_pc = "call"
    /\ tg_args.entry = "send_images_and_prompt"
    /\ tg_pc' = "sip_ensure"
    /\ UNCHANGED <<tg_args, uploaded_files, tg_i, fw_attempts, wait_seconds, exc_seconds, tg_error, calls>>
    /\ UNCHANGED tg_warnings
    /\ UNCHANGED <<chunkVars, imgVars, promptVars, clientVars, mainVars, guardVars, queueVars, retryVars>>

\* Lines 243-249, 218: send_text is called; _execute_with_retry starts.
CallSendText ==
    /\ tg_pc = "call"
    /\ tg_args.entry = "send_text"
    /\ tg_pc' = "st_ensure"
    /\ fw_attempts' = 0
    /\ UNCHANGED <<tg_args, uploaded_files, tg_i, wait_seconds, exc_seconds, tg_error, calls>>
    /\ UNCHANGED tg_warnings
    /\ UNCHANGED <<chunkVars, imgVars, promptVars, clientVars, mainVars, guardVars, queueVars, retryVars>>

\* Lines 269-272: send_images_with_caption without images sends one text.
CaptionNoImages ==
    /\ tg_pc = "call"
    /\ tg_args.entry = "send_images_with_caption"
    /\ tg_args.images = <<>>
    /\ tg_pc' = "st_ensure"
    /\ fw_attempts' = 0
    /\ UNCHANGED <<tg_args, uploaded_files, tg_i, wait_seconds, exc_seconds, tg_error, calls>>
    /\ UNCHANGED tg_warnings
    /\ UNCHANGED <<chunkVars, imgVars, promptVars, clientVars, mainVars, guardVars, queueVars, retryVars>>

\* Lines 274-275.
CaptionTooMany ==
    /\ tg_pc = "call"
    /\ tg_args.entry = "send_images_with_caption"
    /\ TooManyImages(tg_args.images)
    /\ Raise(LocalError("ValueError"))
    /\ UNCHANGED <<tg_args, uploaded_files, tg_i, fw_attempts, wait_seconds, exc_seconds, calls>>
    /\ UNCHANGED tg_warnings
    /\ UNCHANGED <<chunkVars, imgVars, promptVars, clientVars, mainVars, guardVars, queueVars, retryVars>>

\* Lines 277-279.
CaptionWithImages ==
    /\ tg_pc = "call"
    /\ tg_args.entry = "send_images_with_caption"
    /\ tg_args.images # <<>>
    /\ ~TooManyImages(tg_args.images)
    /\ tg_pc' = "sip_ensure"
    /\ UNCHANGED <<tg_args, uploaded_files, tg_i, fw_attempts, wait_seconds, exc_seconds, tg_error, calls>>
    /\ UNCHANGED tg_warnings
    /\ UNCHANGED <<chunkVars, imgVars, promptVars, clientVars, mainVars, guardVars, queueVars, retryVars>>

\* Lines 305-306: the client and then the target entity are obtained.
SipSetupOk ==
    /\ tg_pc \in {"sip_ensure", "sip_resolve"}
    /\ tg_pc' = IF tg_pc = "sip_ensure" THEN "sip_resolve" ELSE "sip_images"
    /\ UNCHANGED <<tg_args, uploaded_files, tg_i, fw_attempts, wait_seconds, exc_seconds, tg_error, calls>>
    /\ UNCHANGED tg_warnings
    /\ UNCHANGED <<chunkVars, imgVars, promptVars, clientVars, mainVars, guardVars, queueVars, retryVars>>

\* Lines 305-306, 350-352: _ensure_client or get_input_entity raises.
SipSetupRaise ==
    /\ tg_pc \in {"sip_ensure", "sip_resolve"}
    /\ \E cls \in {"RuntimeError", "ConnectionError"} : Raise(LocalError(cls))
    /\ UNCHANGED <<tg_args, uploaded_files, tg_i, fw_attempts, wait_seconds, exc_seconds, calls>>
    /\ UNCHANGED tg_warnings
    /\ UNCHANGED <<chunkVars, imgVars, promptVars, clientVars, mainVars, guardVars, queueVars, retryVars>>

\* Lines 309-311.
SipTooMany ==
    /\ tg_pc = "sip_images"
    /\ tg_args.images # <<>>
    /\ TooManyImages(tg_args.images)
    /\ Raise(LocalError("ValueError"))
    /\ UNCHANGED <<tg_args, uploaded_files, tg_i, fw_attempts, wait_seconds, exc_seconds, calls>>
    /\ UNCHANGED tg_warnings
    /\ UNCHANGED <<chunkVars, imgVars, promptVars, clientVars, mainVars, guardVars, queueVars, retryVars>>

\* Lines 309, 325-337: no images, the text is built and chunked.
SipNoImages ==
    /\ tg_pc = "sip_images"
    /\ tg_args.images = <<>>
    /\ tg_pc' = "sip_send"
    /\ tg_i' = 1
    /\ fw_attempts' = 0
    /\ UNCHANGED <<tg_args, uploaded_files, wait_seconds, exc_seconds, tg_error, calls>>
    /\ UNCHANGED tg_warnings
    /\ UNCHANGED <<chunkVars, imgVars, promptVars, clientVars, mainVars, guardVars, queueVars, retryVars>>

\* Lines 308-313.
SipStartUpload ==
    /\ tg_pc = "sip_images"
    /\ tg_args.images # <<>>
    /\ ~TooManyImages(tg_args.images)
    /\ tg_pc' = "sip_upload"
    /\ uploaded_files' = <<>>
    /\ tg_i' = 1
    /\ fw_attempts' = 0
    /\ tg_warnings' = Warned(tg_warnings, ImageAt(tg_args.images, 1))
    /\ UNCHANGED <<tg_args, wait_seconds, exc_seconds, tg_error, calls>>
    /\ UNCHANGED <<chunkVars, imgVars, promptVars, clientVars, mainVars, guardVars, queueVars, retryVars>>

\* Lines 314-318: one upload returns its handle.
UploadOk ==
    /\ tg_pc = "sip_upload"
    /\ calls' = Append(calls, CallEntry(fw_attempts + 1, "ok"))
    /\ uploaded_files' = Append(uploaded_files, Handle(ChannelOp.arg))
    /\ IF tg_i < Len(tg_args.images)
       THEN /\ tg_i' = tg_i + 1
            /\ tg_pc' = "sip_upload"
            /\ tg_warnings' = Warned(tg_warnings, ImageAt(tg_args.images, tg_i + 1))
       ELSE /\ tg_i' = tg_i
            /\ tg_pc' = "sip_album"
            /\ tg_warnings' = tg_warnings
    /\ fw_attempts' = 0
    /\ wait_seconds' = 0
    /\ exc_seconds' = NoAttr
    /\ UNCHANGED <<tg_args, tg_error>>
    /\ UNCHANGED <<chunkVars, imgVars, promptVars, clientVars, mainVars, guardVars, queueVars, retryVars>>

\* Lines 320-337: the album is sent; then the text is built and chunked.
AlbumOk ==
    /\ tg_pc = "sip_album"
    /\ calls' = Append(calls, CallEntry(fw_attempts + 1, "ok"))
    /\ tg_pc' = "sip_send"
    /\ tg_i' = 1
    /\ fw_attempts' = 0
    /\ wait_seconds' = 0
    /\ exc_seconds' = NoAttr
    /\ UNCHANGED <<tg_args, uploaded_files, tg_error>>
    /\ UNCHANGED tg_warnings
    /\ UNCHANGED <<chunkVars, imgVars, promptVars, clientVars, mainVars, guardVars, queueVars, retryVars>>

\* Lines 337-342: one chunk is sent.
ChunkOk ==
    /\ tg_pc = "sip_send"
    /\ tg_i <= Len(TgChunks)
    /\ calls' = Append(calls, CallEntry(fw_attempts + 1, "ok"))
    /\ tg_i' = tg_i + 1
    /\ fw_attempts' = 0
    /\ wait_seconds' = 0
    /\ exc_seconds' = NoAttr
    /\ UNCHANGED <<tg_args, tg_pc, uploaded_files, tg_error>>
    /\ UNCHANGED tg_warnings
    /\ UNCHANGED <<chunkVars, imgVars, promptVars, clientVars, mainVars, guardVars, queueVars, retryVars>>

\* Lines 344-349: every chunk was sent.
SipReturn ==
    /\ tg_pc = "sip_send"
    /\ tg_i > Len(TgChunks)
    /\ tg_pc' = "returned"
    /\ UNCHANGED <<tg_args, uploaded_files, tg_i, fw_attempts, wait_seconds, exc_seconds, tg_error, calls>>
    /\ UNCHANGED tg_warnings
    /\ UNCHANGED <<chunkVars, imgVars, promptVars, clientVars, mainVars, guardVars, queueVars, retryVars>>

\* Lines 288-296: operation() raised FloodWaitError on an attempt that is not
\* fatal: sleep, then go round again.
FloodwaitRetry ==
    /\ InFloodwaitWrapper
    /\ ~FloodIsFatal(fw_attempts + 1)
    /\ calls' = Append(calls, CallEntry(fw_attempts + 1, "FloodWaitError"))
    /\ fw_attempts' = fw_attempts + 1
    /\ \E seconds \in FloodSeconds :
           /\ exc_seconds' = seconds
           /\ wait_seconds' = WaitSeconds(seconds)
    /\ UNCHANGED <<tg_args, tg_pc, uploaded_files, tg_i, tg_error>>
    /\ UNCHANGED tg_warnings
    /\ UNCHANGED <<chunkVars, imgVars, promptVars, clientVars, mainVars, guardVars, queueVars, retryVars>>

\* Lines 291-293, 350-352: the rate-limit signal is fatal.
FloodwaitFatal ==
    /\ InFloodwaitWrapper
    /\ FloodIsFatal(fw_attempts + 1)
    /\ calls' = Append(calls, CallEntry(fw_attempts + 1, "FloodWaitError"))
    /\ fw_attempts' = fw_attempts + 1
    /\ \E seconds \in FloodSeconds : Raise(FloodWaitError(seconds))
    /\ UNCHANGED <<tg_args, uploaded_files, tg_i, wait_seconds, exc_seconds>>
    /\ UNCHANGED tg_warnings
    /\ UNCHANGED <<chunkVars, imgVars, promptVars, clientVars, mainVars, guardVars, queueVars, retryVars>>

\* Lines 288-290, 350-352: any other exception is not caught by the wrapper.
FloodwaitError ==
    /\ InFloodwaitWrapper
    /\ \E exc \in OtherChannelErrors :
        /\ calls' = Append(calls, CallEntry(fw_attempts + 1, exc.cls))
        /\ Raise(exc)
    /\ fw_attempts' = fw_attempts + 1
    /\ UNCHANGED <<tg_args, uploaded_files, tg_i, wait_seconds, exc_seconds>>
    /\ UNCHANGED tg_warnings
    /\ UNCHANGED <<chunkVars, imgVars, promptVars, clientVars, mainVars, guardVars, queueVars, retryVars>>

\* Lines 219-221: _execute_with_retry counts the attempt and gets the client.
ExecEnsureOk ==
    /\ tg_pc = "st_ensure"
    /\ fw_attempts' = fw_attempts + 1
    /\ tg_pc' = "st_send"
    /\ UNCHANGED <<tg_args, uploaded_files, tg_i, wait_seconds, exc_seconds, tg_error, calls>>
    /\ UNCHANGED tg_warnings
    /\ UNCHANGED <<chunkVars, imgVars, promptVars, clientVars, mainVars, guardVars, queueVars, retryVars>>

\* Line 221: _ensure_client raises; it is outside the try block.
ExecEnsureRaise ==
    /\ tg_pc = "st_ensure"
    /\ fw_attempts' = fw_attempts + 1
    /\ \E cls \in {"RuntimeError", "ConnectionError"} : Raise(LocalError(cls))
    /\ UNCHANGED <<tg_args, uploaded_files, tg_i, wait_seconds, exc_seconds, calls>>
    /\ UNCHANGED tg_warnings
    /\ UNCHANGED <<chunkVars, imgVars, promptVars, clientVars, mainVars, guardVars, queueVars, retryVars>>

\* Lines 223, 249-250: the message is sent.
ExecSendOk ==
    /\ tg_pc = "st_send"
    /\ calls' = Append(calls, CallEntry(fw_attempts, "ok"))
    /\ tg_pc' = "returned"
    /\ UNCHANGED <<tg_args, uploaded_files, tg_i, fw_attempts, wait_seconds, exc_seconds, tg_error>>
    /\ UNCHANGED tg_warnings
    /\ UNCHANGED <<chunkVars, imgVars, promptVars, clientVars, mainVars, guardVars, queueVars, retryVars>>

\* Lines 224-234.
ExecFloodRetry ==
    /\ tg_pc = "st_send"
    /\ ~FloodIsFatal(fw_attempts)
    /\ calls' = Append(calls, CallEntry(fw_attempts, "FloodWaitError"))
    /\ \E seconds \in FloodSeconds :
           /\ exc_seconds' = seconds
           /\ wait_seconds' = WaitSeconds(seconds)
    /\ tg_pc' = "st_ensure"
    /\ UNCHANGED <<tg_args, uploaded_files, tg_i, fw_attempts, tg_error>>
    /\ UNCHANGED tg_warnings
    /\ UNCHANGED <<chunkVars, imgVars, promptVars, clientVars, mainVars, guardVars, queueVars, retryVars>>

\* Lines 224-227.
ExecFloodFatal ==
    /\ tg_pc = "st_send"
    /\ FloodIsFatal(fw_attempts)
    /\ calls' = Append(calls, CallEntry(fw_attempts, "FloodWaitError"))
    /\ \E seconds \in FloodSeconds : Raise(FloodWaitError(seconds))
    /\ UNCHANGED <<tg_args, uploaded_files, tg_i, fw_attempts, wait_seconds, exc_seconds>>
    /\ UNCHANGED tg_warnings
    /\ UNCHANGED <<chunkVars, imgVars, promptVars, clientVars, mainVars, guardVars, queueVars, retryVars>>

\* Lines 235-240.
ExecSendError ==
    /\ tg_pc = "st_send"
    /\ \E exc \in OtherChannelErrors :
        /\ calls' = Append(calls, CallEntry(fw_attempts, exc.cls))
        /\ Raise(exc)
    /\ UNCHANGED <<tg_args, uploaded_files, tg_i, fw_attempts, wait_seconds, exc_seconds>>
    /\ UNCHANGED tg_warnings
    /\ UNCHANGED <<chunkVars, imgVars, promptVars, clientVars, mainVars, guardVars, queueVars, retryVars>>

NextDelivery ==
    \/ CallSendImagesAndPrompt
    \/ CallSendText
    \/ CaptionNoImages
    \/ CaptionTooMany
    \/ CaptionWithImages
    \/ SipSetupOk
    \/ SipSetupRaise
    \/ SipTooMany
    \/ SipNoImages
    \/ SipStartUpload
    \/ UploadOk
    \/ AlbumOk
    \/ ChunkOk
    \/ SipReturn
    \/ FloodwaitRetry
    \/ FloodwaitFatal
    \/ FloodwaitError
    \/ ExecEnsureOk
    \/ ExecEnsureRaise
    \/ ExecSendOk
    \/ ExecFloodRetry
    \/ ExecFloodFatal
    \/ ExecSendError

SpecDelivery == InitDelivery /\ [][NextDelivery]_vars

\* ------------------------------------------------------------------------
\* Specification of generate_prompt_text, with _poll_run and
\* _extract_latest_text inlined
\* ------------------------------------------------------------------------
InitPrompt ==
    /\ IdleClient
    /\ IdleMain
    /\ IdleGuard
    /\ IdleQueue
    /\ IdleRetry
    /\ IdleChunk
    /\ IdleImages
    /\ IdleDelivery
    /\ p_pc = "loop"
    /\ p_attempt = 0
    /\ p_elapsed = 0
    /\ last_reason = NoReason
    /\ logged_error = FALSE
    /\ p_result = <<>>
    /\ p_error = NoError
    /\ compositions = 0
    /\ runs = 0
    /\ error_logs = <<>>
    /\ run_statuses = <<>>
    /\ verdicts = <<>>
    /\ blanks = 0
    /\ info_logs = <<>>

\* Line 76: for attempt in range(2).
LoopThrice(att) == att < PROMPT_ATTEMPTS + 1

LoopContinues(att) == att < PROMPT_ATTEMPTS

\* Line 108: if not is_valid.
RejectedNever(verdict) == FALSE

Rejected(verdict) == ~verdict.ok

\* Lines 136-142: an exception that was not logged where it was raised is
\* logged by the except clause; then it is re-raised.
ExceptLogsAlways(flag, exc) == << <<exc.cls>> \o exc.msg >>

\* Lines 136-141: the except clause logs the exception unless logged_error.
ExceptLogs(flag, exc) == IF flag THEN <<>> ELSE << <<exc.cls>> \o exc.msg >>

\* Line 28: the first 12 hexadecimal characters of the SHA1 digest of the
\* text; the digest itself is left uninterpreted.
SHA1_PREFIX == 12

_sha1(t) == [digest_of |-> t, hex_chars |-> SHA1_PREFIX]

\* Lines 119-127: the record of a success.
GeneratedRecord(sanitized) == [len |-> Len(sanitized), sha1 |-> _sha1(sanitized)]

Propagate(exc) ==
    /\ error_logs' = error_logs \o ExceptLogs(logged_error, exc)
    /\ p_error' = exc
    /\ p_pc' = "raised"
    /\ UNCHANGED logged_error

\* Lines 93-98, 103-105, 130-135 followed by 136-142: the error is logged
\* where it is raised, and not again.
LogAndRaise(exc, reason) ==
    /\ error_logs' = Append(error_logs, reason) \o ExceptLogs(TRUE, exc)
    /\ logged_error' = TRUE
    /\ p_error' = exc
    /\ p_pc' = "raised"

\* Lines 76-77: an attempt starts with a fresh composition.
PromptCompose ==
    /\ p_pc = "loop"
    /\ LoopContinues(p_attempt)
    /\ compositions' = compositions + 1
    /\ p_pc' = "setup"
    /\ UNCHANGED <<p_attempt, p_elapsed, last_reason, logged_error, p_result, p_error,
                   runs, error_logs, run_statuses, verdicts, blanks, info_logs>>
    /\ UNCHANGED <<chunkVars, imgVars, tgVars, clientVars, mainVars, guardVars, queueVars, retryVars>>

\* Line 132: last_reason or "unsafe_prompt".
ReasonGeneric(reason) == <<"unsafe_prompt">>

ReasonOrDefault(reason) == IF reason = NoReason THEN <<"unsafe_prompt">> ELSE reason

\* Lines 130-135: both attempts were rejected.
PromptExhausted ==
    /\ p_pc = "loop"
    /\ ~LoopContinues(p_attempt)
    /\ LogAndRaise(PromptError("RuntimeError", <<"prompt_guard_blocked">>),
                   ReasonOrDefault(last_reason))
    /\ UNCHANGED <<p_attempt, p_elapsed, last_reason, p_result, compositions, runs,
                   run_statuses, verdicts, blanks, info_logs>>
    /\ UNCHANGED <<chunkVars, imgVars, tgVars, clientVars, mainVars, guardVars, queueVars, retryVars>>

\* Lines 78-89, 35: assistant, thread, message and run are created; _poll_run
\* sets its deadline.
PromptRunCreated ==
    /\ p_pc = "setup"
    /\ runs' = runs + 1
    /\ p_elapsed' = 0
    /\ p_pc' = "poll"
    /\ UNCHANGED <<p_attempt, last_reason, logged_error, p_result, p_error, compositions,
                   error_logs, run_statuses, verdicts, blanks, info_logs>>
    /\ UNCHANGED <<chunkVars, imgVars, tgVars, clientVars, mainVars, guardVars, queueVars, retryVars>>

\* Lines 78-88: one of the four calls raises; runs.create is the last of them.
PromptSetupRaise ==
    /\ p_pc = "setup"
    /\ \E reached \in BOOLEAN : runs' = IF reached THEN runs + 1 ELSE runs
    /\ Propagate(PromptError("APIError", <<>>))
    /\ UNCHANGED <<p_attempt, p_elapsed, last_reason, p_result, compositions, run_statuses,
                   verdicts, blanks, info_logs>>
    /\ UNCHANGED <<chunkVars, imgVars, tgVars, clientVars, mainVars, guardVars, queueVars, retryVars>>

\* Line 90: a run that did not complete is a failure.
RunFailedNever(status) == FALSE

RunFailed(status) == status # "completed"

\* Lines 37-39, 90: the run is retrieved with status completed.
PollCompleted ==
    /\ p_pc = "poll"
    /\ \E status \in TerminalStatuses :
        /\ ~RunFailed(status)
        /\ run_statuses' = Append(run_statuses, status)
    /\ p_pc' = "extract"
    /\ p_elapsed' = 0
    /\ UNCHANGED <<p_attempt, last_reason, logged_error, p_result, p_error, compositions,
                   runs, error_logs, verdicts, blanks, info_logs>>
    /\ UNCHANGED <<chunkVars, imgVars, tgVars, clientVars, mainVars, guardVars, queueVars, retryVars>>

\* Lines 37-39, 90-98: the run ended in another terminal status.
PollFailed ==
    /\ p_pc = "poll"
    /\ \E status \in TerminalStatuses :
        /\ RunFailed(status)
        /\ run_statuses' = Append(run_statuses, status)
        /\ \E reason \in {<<status>>, <<"last_error", "message">>} :
              LogAndRaise(PromptError("RuntimeError", <<"assistant_run", status>>), reason)
    /\ UNCHANGED <<p_attempt, p_elapsed, last_reason, p_result, compositions, runs, verdicts, blanks, info_logs>>
    /\ UNCHANGED <<chunkVars, imgVars, tgVars, clientVars, mainVars, guardVars, queueVars, retryVars>>

\* Line 40: time.monotonic() > deadline, the deadline being POLL_TIMEOUT
\* after the start.
DeadlineNever(now) == FALSE

DeadlinePassed(now) == now > POLL_TIMEOUT

\* Lines 37-42: the run is not terminal and the deadline has not passed when
\* the retrieve returns; _poll_run sleeps.
PollSleep ==
    /\ p_pc = "poll"
    /\ \E d \in RetrieveDurations :
        /\ ~DeadlinePassed(p_elapsed + d)
        /\ p_elapsed' = p_elapsed + d + POLL_INTERVAL
    /\ UNCHANGED <<p_pc, p_attempt, last_reason, logged_error, p_result, p_error,
                   compositions, runs, error_logs, run_statuses, verdicts, blanks, info_logs>>
    /\ UNCHANGED <<chunkVars, imgVars, tgVars, clientVars, mainVars, guardVars, queueVars, retryVars>>

\* Lines 40-41: the run is not terminal and the deadline has passed.
PollTimeout ==
    /\ p_pc = "poll"
    /\ \E d \in RetrieveDurations :
        /\ DeadlinePassed(p_elapsed + d)
        /\ p_elapsed' = p_elapsed + d
    /\ Propagate(PromptError("RuntimeError", <<"assistant_run_timeout">>))
    /\ UNCHANGED <<p_attempt, last_reason, p_result, compositions, runs, run_statuses, verdicts, blanks, info_logs>>
    /\ UNCHANGED <<chunkVars, imgVars, tgVars, clientVars, mainVars, guardVars, queueVars, retryVars>>

\* Line 37: the retrieve raises.
PollRaise ==
    /\ p_pc = "poll"
    /\ Propagate(PromptError("APIError", <<>>))
    /\ UNCHANGED <<p_attempt, p_elapsed, last_reason, p_result, compositions, runs,
                   run_statuses, verdicts, blanks, info_logs>>
    /\ UNCHANGED <<chunkVars, imgVars, tgVars, clientVars, mainVars, guardVars, queueVars, retryVars>>

\* Lines 100, 45-58: listing the messages raises, or no assistant message
\* holds text.
ExtractRaise ==
    /\ p_pc = "extract"
    /\ \E exc \in { PromptError("APIError", <<>>),
                     PromptError("RuntimeError", <<"assistant_no_text_response">>) } :
           Propagate(exc)
    /\ UNCHANGED <<p_attempt, p_elapsed, last_reason, p_result, compositions, runs,
                   run_statuses, verdicts, blanks, info_logs>>
    /\ UNCHANGED <<chunkVars, imgVars, tgVars, clientVars, mainVars, guardVars, queueVars, retryVars>>

\* Line 102: `if not sanitized`.
BlankNeverFatal(sanitized) == FALSE

BlankIsFatal(sanitized) == sanitized = <<>>

\* One more extracted text, counted when sanitize left nothing of it.
BlanksWith(sanitized) == IF sanitized = <<>> THEN blanks + 1 ELSE blanks

\* Lines 100-105: the text sanitizes to nothing.
GuardEmpty ==
    /\ p_pc = "extract"
    /\ \E raw_text \in RawTexts :
          /\ BlankIsFatal(sanitize(raw_text))
          /\ blanks' = BlanksWith(sanitize(raw_text))
    /\ LogAndRaise(PromptError("RuntimeError", <<"assistant_empty_prompt">>), <<"empty_output">>)
    /\ UNCHANGED <<p_attempt, p_elapsed, last_reason, p_result, compositions, runs,
                   run_statuses, verdicts, info_logs>>
    /\ UNCHANGED <<chunkVars, imgVars, tgVars, clientVars, mainVars, guardVars, queueVars, retryVars>>

\* Lines 76, 114: continue takes the loop to its next value.
NextAttemptLast(att) == PROMPT_ATTEMPTS

NextAttempt(att) == att + 1

\* Lines 100-114: the guard rejects the text; the loop goes on.
GuardRejected ==
    /\ p_pc = "extract"
    /\ \E raw_text \in RawTexts :
          LET sanitized == sanitize(raw_text)
          IN  /\ ~BlankIsFatal(sanitized)
              /\ blanks' = BlanksWith(sanitized)
              /\ \E verdict \in validate_prompt(sanitized) :
                    /\ Rejected(verdict)
                    /\ last_reason' = IF verdict.note # <<>> THEN verdict.note
                                      ELSE <<"unsafe_prompt">>
                    /\ verdicts' = Append(verdicts, verdict)
    /\ p_attempt' = NextAttempt(p_attempt)
    /\ p_pc' = "loop"
    /\ UNCHANGED <<p_elapsed, logged_error, p_result, p_error, compositions, runs,
                   error_logs, run_statuses, info_logs>>
    /\ UNCHANGED <<chunkVars, imgVars, tgVars, clientVars, mainVars, guardVars, queueVars, retryVars>>

\* Lines 100-128: the guard accepts the text, which is returned.
GuardAccepted ==
    /\ p_pc = "extract"
    /\ \E raw_text \in RawTexts :
          LET sanitized == sanitize(raw_text)
          IN  /\ ~BlankIsFatal(sanitized)
              /\ blanks' = BlanksWith(sanitized)
              /\ \E verdict \in validate_prompt(sanitized) :
                    /\ ~Rejected(verdict)
                    /\ verdicts' = Append(verdicts, verdict)
              /\ info_logs' = Append(info_logs, GeneratedRecord(sanitized))
              /\ p_result' = sanitized
    /\ p_pc' = "returned"
    /\ UNCHANGED <<p_attempt, p_elapsed, last_reason, logged_error, p_error, compositions,
                   runs, error_logs, run_statuses>>
    /\ UNCHANGED <<chunkVars, imgVars, tgVars, clientVars, mainVars, guardVars, queueVars, retryVars>>

NextPrompt ==
    \/ PromptCompose
    \/ PromptExhausted
    \/ PromptRunCreated
    \/ PromptSetupRaise
    \/ PollCompleted
    \/ PollFailed
    \/ PollSleep
    \/ PollTimeout
    \/ PollRaise
    \/ ExtractRaise
    \/ GuardEmpty
    \/ GuardRejected
    \/ GuardAccepted

SpecPrompt == InitPrompt /\ [][NextPrompt]_vars

\* generate_prompt_text is sequential code: while it has not returned or
\* raised, its next step is taken.
SpecPromptFair == SpecPrompt /\ WF_vars(NextPrompt)

\* ------------------------------------------------------------------------
\* Specification of the shared client: coroutines of one event loop call
\* _ensure_client and close_client; a coroutine runs without interruption
\* between two awaits.
\* ------------------------------------------------------------------------
\* Operations started by the callers, and connections the network may drop.
MaxOps == 4
MaxDrops == 1

OtherGroups == <<chunkVars, imgVars, tgVars, promptVars, mainVars, guardVars, queueVars, retryVars>>

InitClient ==
    /\ IdleChunk
    /\ IdleImages
    /\ IdleDelivery
    /\ IdlePrompt
    /\ IdleMain
    /\ IdleGuard
    /\ IdleQueue
    /\ IdleRetry
    /\ _client = 0
    /\ _client_lock = 0
    /\ _LOGIN_MODE \in BOOLEAN
    /\ c_pc = [c \in Callers |-> "idle"]
    /\ c_client = [c \in Callers |-> 0]
    /\ c_got = [c \in Callers |-> 0]
    /\ connected = [k \in Clients |-> FALSE]
    /\ created = 0
    /\ authorized = {}
    /\ closed = {}
    /\ epoch = 0
    /\ failures = 0
    /\ returns = {}
    /\ c_ops = 0
    /\ c_drops = 0
    /\ c_issued = NoOp

\* Lines 62 and 66: _client and _client.is_connected().
Live == _client # 0 /\ connected[_client]

\* asyncio.Lock: the lock can be taken when nobody holds it.
LockAlwaysFree(holder) == TRUE

LockFree(holder) == holder = 0

\* Line 100: _client = None.
HandleKept(handle) == handle

HandleAfterClose(handle) == 0

\* What a return of _ensure_client hands out: the client, whether it was
\* connected at that moment, the way the call took, and whether the client
\* was constructed after every client closed so far.
Handed(k, via) ==
    [epoch |-> epoch, client |-> k, live |-> connected[k], via |-> via,
     fresh |-> \A old \in closed : old < k]

\* Lines 62-63: the handle is live, it is returned at once.
EnsureFast(c) ==
    /\ c_pc[c] = "idle"
    /\ c_ops < MaxOps
    /\ Live
    /\ c_ops' = c_ops + 1
    /\ c_pc' = [c_pc EXCEPT ![c] = "returned"]
    /\ c_got' = [c_got EXCEPT ![c] = _client]
    /\ returns' = returns \cup {Handed(_client, "fast")}
    /\ UNCHANGED <<_client, _client_lock, _LOGIN_MODE, c_client, connected, created,
                   authorized, closed, epoch, failures, c_drops>>
    /\ UNCHANGED c_issued
    /\ UNCHANGED OtherGroups

\* Lines 62, 65: no live handle; the caller goes for the lock.
EnsureSlow(c) ==
    /\ c_pc[c] = "idle"
    /\ c_ops < MaxOps
    /\ ~Live
    /\ c_ops' = c_ops + 1
    /\ c_pc' = [c_pc EXCEPT ![c] = "lock"]
    /\ UNCHANGED <<_client, _client_lock, _LOGIN_MODE, c_client, c_got, connected,
                   created, authorized, closed, epoch, failures, returns, c_drops>>
    /\ UNCHANGED c_issued
    /\ UNCHANGED OtherGroups

\* Lines 65-67: the lock is taken, the handle has become live meanwhile: it is
\* returned and the lock is released.
EnsureRecheck(c) ==
    /\ c_pc[c] = "lock"
    /\ LockFree(_client_lock)
    /\ Live
    /\ c_pc' = [c_pc EXCEPT ![c] = "returned"]
    /\ c_got' = [c_got EXCEPT ![c] = _client]
    /\ returns' = returns \cup {Handed(_client, "recheck")}
    /\ UNCHANGED <<_client, _client_lock, _LOGIN_MODE, c_client, connected, created,
                   authorized, closed, epoch, failures, c_ops, c_drops>>
    /\ UNCHANGED c_issued
    /\ UNCHANGED OtherGroups

\* Lines 65-71: the lock is taken, there is still no live handle: a client is
\* constructed and connect() is awaited.
EnsureCreate(c) ==
    /\ c_pc[c] = "lock"
    /\ LockFree(_client_lock)
    /\ ~Live
    /\ created < MaxClients
    /\ _client_lock' = c
    /\ created' = created + 1
    /\ c_client' = [c_client EXCEPT ![c] = created + 1]
    /\ c_pc' = [c_pc EXCEPT ![c] = "connect"]
    /\ UNCHANGED <<_client, _LOGIN_MODE, c_got, connected, authorized, closed, epoch,
                   failures, returns, c_ops, c_drops>>
    /\ UNCHANGED c_issued
    /\ UNCHANGED OtherGroups

\* Line 71: connect() returns; is_user_authorized() is awaited.
EnsureConnected(c) ==
    /\ c_pc[c] = "connect"
    /\ connected' = [connected EXCEPT ![c_client[c]] = TRUE]
    /\ c_pc' = [c_pc EXCEPT ![c] = "authorize"]
    /\ UNCHANGED <<_client, _client_lock, _LOGIN_MODE, c_client, c_got, created,
                   authorized, closed, epoch, failures, returns, c_ops, c_drops>>
    /\ UNCHANGED c_issued
    /\ UNCHANGED OtherGroups

\* Lines 88-89: the client is published and returned; leaving the block
\* releases the lock.
Publish(c) ==
    /\ _client' = c_client[c]
    /\ authorized' = authorized \cup {c_client[c]}
    /\ _client_lock' = 0
    /\ c_got' = [c_got EXCEPT ![c] = c_client[c]]
    /\ c_client' = [c_client EXCEPT ![c] = 0]
    /\ c_pc' = [c_pc EXCEPT ![c] = "returned"]
    /\ returns' = returns \cup {Handed(c_client[c], "created")}

\* Lines 73, 88-89: the session is authorized.
EnsureAuthorized(c) ==
    /\ c_pc[c] = "authorize"
    /\ Publish(c)
    /\ UNCHANGED <<_LOGIN_MODE, connected, created, closed, epoch, failures, c_ops,
                   c_drops>>
    /\ UNCHANGED c_issued
    /\ UNCHANGED OtherGroups

\* Lines 73-75: the session is not authorized and this is no login:
\* disconnect() is awaited.
EnsureUnauthorized(c) ==
    /\ c_pc[c] = "authorize"
    /\ ~_LOGIN_MODE
    /\ c_pc' = [c_pc EXCEPT ![c] = "reject"]
    /\ UNCHANGED <<_client, _client_lock, _LOGIN_MODE, c_client, c_got, connected,
                   created, authorized, closed, epoch, failures, returns, c_ops,
                   c_drops>>
    /\ UNCHANGED c_issued
    /\ UNCHANGED OtherGroups

\* Line 75: await client.disconnect() leaves the client disconnected.
DisconnectSkipped(was) == was

Disconnected(was) == FALSE

\* Lines 75-78: the client is disconnected and RuntimeError leaves the block,
\* which releases the lock.
EnsureReject(c) ==
    /\ c_pc[c] = "reject"
    /\ connected' = [connected EXCEPT ![c_client[c]] = Disconnected(@)]
    /\ _client_lock' = 0
    /\ c_client' = [c_client EXCEPT ![c] = 0]
    /\ c_pc' = [c_pc EXCEPT ![c] = "rejected"]
    /\ failures' = failures + 1
    /\ UNCHANGED <<_client, _LOGIN_MODE, c_got, created, authorized, closed, epoch,
                   returns, c_ops, c_drops>>
    /\ UNCHANGED c_issued
    /\ UNCHANGED OtherGroups

\* Lines 73, 80-86: the session is not authorized and this is a login: the
\* code is requested and sign_in is awaited.
EnsureSignIn(c) ==
    /\ c_pc[c] = "authorize"
    /\ _LOGIN_MODE
    /\ c_pc' = [c_pc EXCEPT ![c] = "sign_in"]
    /\ UNCHANGED <<_client, _client_lock, _LOGIN_MODE, c_client, c_got, connected,
                   created, authorized, closed, epoch, failures, returns, c_ops,
                   c_drops>>
    /\ UNCHANGED c_issued
    /\ UNCHANGED OtherGroups

\* Lines 82-89: sign_in returns.
EnsureSignedIn(c) ==
    /\ c_pc[c] = "sign_in"
    /\ Publish(c)
    /\ UNCHANGED <<_LOGIN_MODE, connected, created, closed, epoch, failures, c_ops,
                   c_drops>>
    /\ UNCHANGED c_issued
    /\ UNCHANGED OtherGroups

\* Lines 71-86: connect, is_user_authorized, send_code_request or sign_in
\* raises; the exception leaves the block, which releases the lock, and the
\* client is dropped as it is.
EnsureRaise(c) ==
    /\ c_pc[c] \in {"connect", "authorize", "sign_in"}
    /\ _client_lock' = 0
    /\ c_client' = [c_client EXCEPT ![c] = 0]
    /\ c_pc' = [c_pc EXCEPT ![c] = "raised"]
    /\ failures' = failures + 1
    /\ UNCHANGED <<_client, _LOGIN_MODE, c_got, connected, created, authorized,
                   closed, epoch, returns, c_ops, c_drops>>
    /\ UNCHANGED c_issued
    /\ UNCHANGED OtherGroups

\* Line 97: close_client goes for the lock.
CloseCall(c) ==
    /\ c_pc[c] = "idle"
    /\ c_ops < MaxOps
    /\ c_ops' = c_ops + 1
    /\ c_pc' = [c_pc EXCEPT ![c] = "close_lock"]
    /\ UNCHANGED <<_client, _client_lock, _LOGIN_MODE, c_client, c_got, connected,
                   created, authorized, closed, epoch, failures, returns, c_drops>>
    /\ UNCHANGED c_issued
    /\ UNCHANGED OtherGroups

\* Lines 97-99: the lock is taken and there is a client: disconnect() is
\* awaited.
CloseAcquire(c) ==
    /\ c_pc[c] = "close_lock"
    /\ LockFree(_client_lock)
    /\ _client # 0
    /\ _client_lock' = c
    /\ c_pc' = [c_pc EXCEPT ![c] = "close_disconnect"]
    /\ UNCHANGED <<_client, _LOGIN_MODE, c_client, c_got, connected, created,
                   authorized, closed, epoch, failures, returns, c_ops, c_drops>>
    /\ UNCHANGED c_issued
    /\ UNCHANGED OtherGroups

\* Lines 97-100: the lock is taken and there is no client.
CloseNothing(c) ==
    /\ c_pc[c] = "close_lock"
    /\ LockFree(_client_lock)
    /\ _client = 0
    /\ _client' = HandleAfterClose(_client)
    /\ c_pc' = [c_pc EXCEPT ![c] = "closed"]
    /\ UNCHANGED <<_client_lock, _LOGIN_MODE, c_client, c_got, connected, created,
                   authorized, closed, epoch, failures, returns, c_ops, c_drops>>
    /\ UNCHANGED c_issued
    /\ UNCHANGED OtherGroups

\* Lines 99-100: disconnect() returns, the handle is reset and the lock is
\* released.
CloseDisconnected(c) ==
    /\ c_pc[c] = "close_disconnect"
    /\ connected' = [connected EXCEPT ![_client] = FALSE]
    /\ closed' = closed \cup {_client}
    /\ epoch' = epoch + 1
    /\ _client' = HandleAfterClose(_client)
    /\ _client_lock' = 0
    /\ c_pc' = [c_pc EXCEPT ![c] = "closed"]
    /\ UNCHANGED <<_LOGIN_MODE, c_client, c_got, created, authorized, failures,
                   returns, c_ops, c_drops>>
    /\ UNCHANGED c_issued
    /\ UNCHANGED OtherGroups

\* Line 99: disconnect() raises; the handle is not reset, the lock is
\* released, and the connection is gone or not.
CloseRaise(c) ==
    /\ c_pc[c] = "close_disconnect"
    /\ \E still \in BOOLEAN :
        /\ connected' = [connected EXCEPT ![_client] = still /\ connected[_client]]
        /\ epoch' = IF connected[_client] /\ ~still THEN epoch + 1 ELSE epoch
    /\ _client_lock' = 0
    /\ c_pc' = [c_pc EXCEPT ![c] = "raised"]
    /\ UNCHANGED <<_client, _LOGIN_MODE, c_client, c_got, created, authorized, closed,
                   failures, returns, c_ops, c_drops>>
    /\ UNCHANGED c_issued
    /\ UNCHANGED OtherGroups

\* The connection of the shared client, or of the client being set up, is
\* lost.
Drop(k) ==
    /\ connected[k]
    /\ c_drops < MaxDrops
    /\ k = _client \/ \E c \in Callers : c_client[c] = k
    /\ connected' = [connected EXCEPT ![k] = FALSE]
    /\ epoch' = epoch + 1
    /\ c_drops' = c_drops + 1
    /\ UNCHANGED <<_client, _client_lock, _LOGIN_MODE, c_pc, c_client, c_got, created,
                   authorized, closed, failures, returns, c_ops>>
    /\ UNCHANGED c_issued
    /\ UNCHANGED OtherGroups

\* The caller goes on to its next operation.
CallerContinues(c) ==
    /\ c_pc[c] \in {"returned", "raised", "rejected", "closed"}
    /\ c_pc' = [c_pc EXCEPT ![c] = "idle"]
    /\ c_got' = [c_got EXCEPT ![c] = 0]
    /\ UNCHANGED <<_client, _client_lock, _LOGIN_MODE, c_client, connected, created,
                   authorized, closed, epoch, failures, returns, c_ops, c_drops>>
    /\ UNCHANGED c_issued
    /\ UNCHANGED OtherGroups

\* Lines 305, 315-342: send_images_and_prompt keeps the client that
\* _ensure_client returned in a local and issues every upload and send on it.
OpClientShared(c) == _client

OpClient(c) == c_got[c]

\* One channel operation as it is issued: the client it is issued on, whether
\* that client is connected, whether close_client has disconnected it, and
\* the connections lost or closed by then.
Issued_on(k) ==
    [issued |-> TRUE, client |-> k, live |-> k # 0 /\ connected[k],
     closed |-> k \in closed, epoch |-> epoch]

\* Lines 314-342: after the await of an earlier operation returned, the
\* delivery issues its next upload or send.
ChannelCall(c) ==
    /\ c_pc[c] = "returned"
    /\ c_issued' = Issued_on(OpClient(c))
    /\ UNCHANGED <<_client, _client_lock, _LOGIN_MODE, c_pc, c_client, c_got, connected,
                   created, authorized, closed, epoch, failures, returns, c_ops, c_drops>>
    /\ UNCHANGED OtherGroups

NextClient ==
    \/ \E c \in Callers : EnsureFast(c)
    \/ \E c \in Callers : EnsureSlow(c)
    \/ \E c \in Callers : EnsureRecheck(c)
    \/ \E c \in Callers : EnsureCreate(c)
    \/ \E c \in Callers : EnsureConnected(c)
    \/ \E c \in Callers : EnsureAuthorized(c)
    \/ \E c \in Callers : EnsureUnauthorized(c)
    \/ \E c \in Callers : EnsureReject(c)
    \/ \E c \in Callers : EnsureSignIn(c)
    \/ \E c \in Callers : EnsureSignedIn(c)
    \/ \E c \in Callers : EnsureRaise(c)
    \/ \E c \in Callers : CloseCall(c)
    \/ \E c \in Callers : CloseAcquire(c)
    \/ \E c \in Callers : CloseNothing(c)
    \/ \E c \in Callers : CloseDisconnected(c)
    \/ \E c \in Callers : CloseRaise(c)
    \/ \E k \in Clients : Drop(k)
    \/ \E c \in Callers : CallerContinues(c)

SpecClient == InitClient /\ [][NextClient]_vars

\* Two coroutines, each a delivery or a close_client at every turn: between
\* obtaining the client and going on, a delivery issues channel operations.
Parties == {c \in Callers : c <= 2}

NextShared ==
    \/ \E c \in Parties : EnsureFast(c)
    \/ \E c \in Parties : EnsureSlow(c)
    \/ \E c \in Parties : EnsureRecheck(c)
    \/ \E c \in Parties : EnsureCreate(c)
    \/ \E c \in Parties : EnsureConnected(c)
    \/ \E c \in Parties : EnsureAuthorized(c)
    \/ \E c \in Parties : EnsureUnauthorized(c)
    \/ \E c \in Parties : EnsureReject(c)
    \/ \E c \in Parties : EnsureSignIn(c)
    \/ \E c \in Parties : EnsureSignedIn(c)
    \/ \E c \in Parties : EnsureRaise(c)
    \/ \E c \in Parties : CloseCall(c)
    \/ \E c \in Parties : CloseAcquire(c)
    \/ \E c \in Parties : CloseNothing(c)
    \/ \E c \in Parties : CloseDisconnected(c)
    \/ \E c \in Parties : CloseRaise(c)
    \/ \E k \in Clients : Drop(k)
    \/ \E c \in Parties : CallerContinues(c)
    \/ \E c \in Parties : ChannelCall(c)

SpecShared == InitClient /\ [][NextShared]_vars

\* ------------------------------------------------------------------------
\* Specification of the pipeline run: main of smoke_test.py. A stage is a
\* call that returns a value or raises.
\* ------------------------------------------------------------------------
\* Line 18 of gemini_service.py, used by _format_header.
MODEL_NAME == "models/gemini-2.5-flash-image-preview"

\* Lines 22-33: --n is any integer, --aspect one of two choices.
MainArguments == [n : (N_MIN - 1)..(N_MAX + 1), aspect : {"vertical", "square"},
                  no_send : BOOLEAN]

\* The prompts generate_prompt_text may return.
StagePrompts == {<<"p", "1">>, <<"p", "2">>}

\* The lists generate_images may return for a count: 1 to n payloads.
StageImages(n) == UNION {[1..k -> {"png", "raw"}] : k \in 1..n}

\* The failures of the stages.
PromptStageErrors ==
    { PromptError("RuntimeError", <<"prompt_guard_blocked">>),
      PromptError("RuntimeError", <<"assistant_run_timeout">>) }

ImageStageErrors(n) ==
    IF InRange(n)
    THEN { PromptError("RuntimeError", <<"no_images_generated">>),
           PromptError("ConnectionError", <<"bad">>) }
    ELSE { PromptError("ValueError", <<"n must be between 1 and 4">>) }

SendStageErrors ==
    { PromptError("FloodWaitError", <<"flood">>),
      PromptError("RuntimeError", <<"Telegram session not authorized">>) }

\* Lines 37-42: the header names the model, the count, the aspect and the
\* format.
NoMainHeader == [model |-> "", count |-> 0, aspect |-> "", format |-> ""]

_format_header(count, aspect) ==
    [model |-> MODEL_NAME, count |-> count, aspect |-> aspect, format |-> "png"]

\* The arguments of a stage call.
StageArgs(prompt, n, aspect, fmt, imgs, header) ==
    [prompt |-> prompt, n |-> n, aspect |-> aspect, fmt |-> fmt, images |-> imgs,
     header |-> header]

NoStageArgs == StageArgs(<<>>, 0, "", "", <<>>, NoMainHeader)

\* How a stage call ended.
Outcome(state, value, err) == [state |-> state, value |-> value, err |-> err]

Invoke(stage, args) ==
    stage_calls' = Append(stage_calls,
        [stage |-> stage, args |-> args, out |-> Outcome("pending", <<>>, NoError)])

Conclude(outcome) ==
    stage_calls' = [stage_calls EXCEPT ![Len(stage_calls)].out = outcome]

ConcludeAndInvoke(outcome, stage, args) ==
    stage_calls' = Append([stage_calls EXCEPT ![Len(stage_calls)].out = outcome],
        [stage |-> stage, args |-> args, out |-> Outcome("pending", <<>>, NoError)])

InitMain ==
    /\ IdleChunk
    /\ IdleImages
    /\ IdleDelivery
    /\ IdlePrompt
    /\ IdleClient
    /\ IdleGuard
    /\ IdleQueue
    /\ IdleRetry
    /\ m_args \in MainArguments
    /\ m_pc = "start"
    /\ m_prompt = <<>>
    /\ m_images = <<>>
    /\ m_error = NoError
    /\ stage_calls = <<>>
    /\ m_logs = <<>>

NotMain == <<chunkVars, imgVars, tgVars, promptVars, clientVars, guardVars, queueVars, retryVars>>

\* Lines 79-81: the exception is logged and raised again.
MainSwallow(exc) ==
    /\ m_logs' = Append(m_logs, <<"error", exc.cls>> \o exc.msg)
    /\ m_error' = NoError
    /\ m_pc' = "done"

MainReraise(exc) ==
    /\ m_logs' = Append(m_logs, <<"error", exc.cls>> \o exc.msg)
    /\ m_error' = exc
    /\ m_pc' = "raised"

\* Lines 51-56: generate_prompt_text() is called.
MainStart ==
    /\ m_pc = "start"
    /\ Invoke("generate_prompt_text", NoStageArgs)
    /\ m_pc' = "prompt"
    /\ UNCHANGED <<m_args, m_prompt, m_images, m_error, m_logs>>
    /\ UNCHANGED NotMain

\* Lines 56-63: the prompt is returned; main logs and sleeps 30 s.
MainPromptReturned ==
    /\ m_pc = "prompt"
    /\ \E p \in StagePrompts :
        /\ m_prompt' = p
        /\ Conclude(Outcome("returned", p, NoError))
    /\ m_logs' = m_logs \o << <<"info", "generated prompt metadata">>,
                             <<"info", "sleeping 30s before image generation">> >>
    /\ m_pc' = "sleep"
    /\ UNCHANGED <<m_args, m_images, m_error>>
    /\ UNCHANGED NotMain

\* Lines 56, 79-81.
MainPromptRaised ==
    /\ m_pc = "prompt"
    /\ \E exc \in PromptStageErrors :
        /\ Conclude(Outcome("raised", <<>>, exc))
        /\ MainReraise(exc)
    /\ UNCHANGED <<m_args, m_prompt, m_images>>
    /\ UNCHANGED NotMain

\* Lines 63-65: the sleep ends; generate_images is called.
MainSleepDone ==
    /\ m_pc = "sleep"
    /\ Invoke("generate_images",
              StageArgs(m_prompt, m_args.n, upper(m_args.aspect), "png", <<>>,
                        NoMainHeader))
    /\ m_pc' = "images"
    /\ UNCHANGED <<m_args, m_prompt, m_images, m_error, m_logs>>
    /\ UNCHANGED NotMain

\* Lines 65-70: the images are returned and --no-send was given.
MainImagesNoSend ==
    /\ m_pc = "images"
    /\ InRange(m_args.n)
    /\ m_args.no_send
    /\ \E imgs \in StageImages(m_args.n) :
        /\ m_images' = imgs
        /\ Conclude(Outcome("returned", imgs, NoError))
    /\ m_logs' = Append(m_logs, <<"info", "smoke success", "sent=False">>)
    /\ m_pc' = "done"
    /\ UNCHANGED <<m_args, m_prompt, m_error>>
    /\ UNCHANGED NotMain

\* Lines 65-77: the images are returned; send_images_and_prompt is called.
MainImagesSend ==
    /\ m_pc = "images"
    /\ InRange(m_args.n)
    /\ ~m_args.no_send
    /\ \E imgs \in StageImages(m_args.n) :
        /\ m_images' = imgs
        /\ ConcludeAndInvoke(Outcome("returned", imgs, NoError),
               "send_images_and_prompt",
               StageArgs(m_prompt, 0, "", "", imgs,
                         _format_header(Len(imgs), upper(m_args.aspect))))
    /\ m_pc' = "send"
    /\ UNCHANGED <<m_args, m_prompt, m_error, m_logs>>
    /\ UNCHANGED NotMain

\* Lines 65, 79-81.
MainImagesRaised ==
    /\ m_pc = "images"
    /\ \E exc \in ImageStageErrors(m_args.n) :
        /\ Conclude(Outcome("raised", <<>>, exc))
        /\ MainReraise(exc)
    /\ UNCHANGED <<m_args, m_prompt, m_images>>
    /\ UNCHANGED NotMain

\* Lines 73-78.
MainSendReturned ==
    /\ m_pc = "send"
    /\ Conclude(Outcome("returned", <<>>, NoError))
    /\ m_logs' = Append(m_logs, <<"info", "smoke success", "sent=True">>)
    /\ m_pc' = "done"
    /\ UNCHANGED <<m_args, m_prompt, m_images, m_error>>
    /\ UNCHANGED NotMain

\* Lines 73-77, 79-81.
MainSendRaised ==
    /\ m_pc = "send"
    /\ \E exc \in SendStageErrors :
        /\ Conclude(Outcome("raised", <<>>, exc))
        /\ MainReraise(exc)
    /\ UNCHANGED <<m_args, m_prompt, m_images>>
    /\ UNCHANGED NotMain

NextMain ==
    \/ MainStart
    \/ MainPromptReturned
    \/ MainPromptRaised
    \/ MainSleepDone
    \/ MainImagesNoSend
    \/ MainImagesSend
    \/ MainImagesRaised
    \/ MainSendReturned
    \/ MainSendRaised

SpecMain == InitMain /\ [][NextMain]_vars

\* ------------------------------------------------------------------------
\* Specification of the prompt guard: sanitize and validate_prompt are
\* applied to a text, each of them twice.
\* ------------------------------------------------------------------------
\* The short texts: every text of backticks, blanks, line ends and a letter.
MaxGuardLen == 5
GuardAlphabet == {TICK, SP, NL, "a"}
ShortTexts == UNION {[1..n -> GuardAlphabet] : n \in 0..MaxGuardLen}

\* Texts with two runs of backticks of every length up to MaxTickRun, with
\* whitespace between them.
MaxJobs == 4         \* most POST /run-now requests that arrive
MaxTickRun == 7
TickRun(k) == [i \in 1..k |-> TICK]
TickTexts ==
    { TickRun(k) \o <<SP, NL>> \o TickRun(j) \o <<"a">> : k, j \in 0..MaxTickRun }

\* The long texts: forbidden terms or none, required terms or not, padded to
\* a length on either side of each limit, bare or inside a markdown fence.
\* The texts with a violation of the keyword checks come in two lengths.
Nude == <<"n", "u", "d", "e">>
Bikini == <<"b", "i", "k", "i", "n", "i">>
ForbiddenParts ==
    { <<>>,
      Nude \o <<SP>>,
      <<"x", "N", "U", "D", "E", "x", SP>>,
      Nude \o <<SP>> \o Bikini \o <<SP>>,
      Bikini \o <<SP>> }
RequiredParts ==
    { Leather \o <<SP>> \o Vertical \o <<SP>>,
      Leather \o <<SP>>,
      Vertical \o <<SP>>,
      <<>> }
GuardLengths ==
    { 50, MIN_LENGTH - 1, MIN_LENGTH, MIN_LENGTH + 1,
      MAX_LENGTH - 1, MAX_LENGTH, MAX_LENGTH + 1 }

Padded(words, n) == words \o Fill(n - Len(words))

Fenced(t) == Fence \o <<NL>> \o t \o <<SP, NL>> \o Fence

LongTexts ==
    LET clean == { Padded(Leather \o <<SP>> \o Vertical \o <<SP>>, n) : n \in GuardLengths }
        other == { Padded(f \o r, n) :
                     f \in ForbiddenParts, r \in RequiredParts, n \in {50, MIN_LENGTH} }
    IN  clean \cup other \cup { Fenced(t) : t \in clean \cup other }

InitGuard ==
    /\ IdleChunk
    /\ IdleImages
    /\ IdleDelivery
    /\ IdlePrompt
    /\ IdleClient
    /\ IdleMain
    /\ IdleQueue
    /\ IdleRetry
    /\ s_text \in ShortTexts \cup TickTexts \cup LongTexts
    /\ s_pc = "call"
    /\ s_once = <<>>
    /\ s_twice = <<>>
    /\ v_first = None
    /\ v_second = None

NotGuard == <<chunkVars, imgVars, tgVars, promptVars, clientVars, mainVars, queueVars, retryVars>>

\* sanitize(text).
GuardSanitize ==
    /\ s_pc = "call"
    /\ s_once' = sanitize(s_text)
    /\ s_pc' = "sanitized"
    /\ UNCHANGED <<s_text, s_twice, v_first, v_second>>
    /\ UNCHANGED NotGuard

\* sanitize(sanitize(text)).
GuardSanitizeAgain ==
    /\ s_pc = "sanitized"
    /\ s_twice' = sanitize(s_once)
    /\ s_pc' = "resanitized"
    /\ UNCHANGED <<s_text, s_once, v_first, v_second>>
    /\ UNCHANGED NotGuard

\* validate_prompt(text).
GuardValidate ==
    /\ s_pc = "resanitized"
    /\ v_first' \in validate_prompt(s_text)
    /\ s_pc' = "validated"
    /\ UNCHANGED <<s_text, s_once, s_twice, v_second>>
    /\ UNCHANGED NotGuard

\* validate_prompt(text) once more, in this run of the program or in another.
GuardValidateAgain ==
    /\ s_pc = "validated"
    /\ v_second' \in validate_prompt(s_text)
    /\ s_pc' = "revalidated"
    /\ UNCHANGED <<s_text, s_once, s_twice, v_first>>
    /\ UNCHANGED NotGuard

NextGuard ==
    \/ GuardSanitize
    \/ GuardSanitizeAgain
    \/ GuardValidate
    \/ GuardValidateAgain

SpecGuard == InitGuard /\ [][NextGuard]_vars

\* ------------------------------------------------------------------------
\* Specification of the run-now boundary (main.run_now, queue.enqueue_run_now)
\* ------------------------------------------------------------------------
JobIds == 1..MaxJobs

\* queue.py line 14: asyncio.Queue() has maxsize 0, which means no limit.
MAXSIZE == 0

\* asyncio.Queue.full(), which decides whether put_nowait raises QueueFull.
FullAlways(q) == TRUE

Full(q) == MAXSIZE > 0 /\ Len(q) >= MAXSIZE

\* queue.py lines 21-28: put_nowait, with QueueFull swallowed after a warning.
put_nowait(q, job_id) == IF Full(q) THEN q ELSE Append(q, job_id)

LogRecord(level, msg, job) == [level |-> level, msg |-> msg, job |-> job]

\* queue.py lines 24 and 26: the record enqueue_run_now logs.
EnqueueLog(q, job_id) ==
    IF Full(q) THEN LogRecord("warning", "queue_full", job_id)
    ELSE LogRecord("info", "job enqueued (stub)", job_id)

\* main.py line 134.
RunNowResponse(job_id) == [queued |-> TRUE, job_id |-> job_id]

\* The job ids handed out so far: uuid4 gives a new one every time.
Issued == {responses[i].job_id : i \in 1..Len(responses)}

InitQueue ==
    /\ IdleChunk
    /\ IdleImages
    /\ IdleDelivery
    /\ IdlePrompt
    /\ IdleClient
    /\ IdleMain
    /\ IdleGuard
    /\ IdleRetry
    /\ _queue = <<>>
    /\ requests = 0
    /\ responses = <<>>
    /\ job_context = 0
    /\ q_logs = <<>>
    /\ pipeline_runs = {}

NotQueue == <<chunkVars, imgVars, tgVars, promptVars, clientVars, mainVars, guardVars,
              retryVars>>

\* A POST /run-now request reaches the server.
RunNowArrive ==
    /\ requests + Len(responses) < MaxJobs
    /\ requests' = requests + 1
    /\ UNCHANGED <<_queue, responses, job_context, q_logs, pipeline_runs>>
    /\ UNCHANGED NotQueue

\* main.py lines 124-134 with queue.py lines 17-29: the handler has no await,
\* so it runs in one step: a new job id, the id put on the queue, two log
\* records under the job's context, the context cleared, the response.
RunNowHandle ==
    /\ requests > 0
    /\ \E job_id \in JobIds \ Issued :
        /\ _queue' = put_nowait(_queue, job_id)
        /\ q_logs' = q_logs \o <<EnqueueLog(_queue, job_id),
                                 LogRecord("info", "run-now request accepted", job_id)>>
        /\ responses' = Append(responses, RunNowResponse(job_id))
    /\ job_context' = 0
    /\ requests' = requests - 1
    /\ UNCHANGED pipeline_runs
    /\ UNCHANGED NotQueue

NextQueue == RunNowArrive \/ RunNowHandle

SpecQueue == InitQueue /\ [][NextQueue]_vars

\* The server runs the handler of every request that has arrived.
SpecQueueFair == SpecQueue /\ WF_vars(RunNowHandle)

\* ------------------------------------------------------------------------
\* Specification of _run_with_retry on its own, over a wide range of failures
\* ------------------------------------------------------------------------
\* An attribute that is there but is no int (the string "503", 503.0).
OtherAttr(k) == [isint |-> FALSE, v |-> k]

FailureAttrs ==
    {NoAttr, OtherAttr(503), IntAttr(429), IntAttr(499), IntAttr(500), IntAttr(599),
     IntAttr(600)}

FailureClasses == {"ConnectionError", "TimeoutError", "ApiError", "RuntimeError"}

FailureMessages ==
    { MsgPlain, Msg503, Msg5XX, MsgTemporarily, Msg429,
      <<"e", " ", "5", "0", "0">>, <<"e", " ", "5", "0", "2", "!">>,
      <<" ", "5", "0", "4">>, <<"5", "0", "0">>, <<" ", "5", "0", "1">>,
      <<"a", "5", "x", "x", "a">>, <<"E", "5", "0", "3">>,
      <<"t", "e", "m", "p", "o", "r", "a", "r", "i", "l", "y">> }

Failures ==
    { Exc(cls, status_code, code, response_status, message) :
        cls \in FailureClasses, status_code \in FailureAttrs, code \in FailureAttrs,
        response_status \in FailureAttrs, message \in FailureMessages }

InitRetry ==
    /\ IdleChunk
    /\ IdleImages
    /\ IdleDelivery
    /\ IdlePrompt
    /\ IdleClient
    /\ IdleMain
    /\ IdleGuard
    /\ IdleQueue
    /\ r_pc = "call"
    /\ r_first = NoFailure
    /\ r_invocations = 0
    /\ r_error = NoFailure

NotRetry == <<chunkVars, imgVars, tgVars, promptVars, clientVars, mainVars, guardVars,
              queueVars>>

\* Lines 64-66: the first func() returns.
RetryFirstReturns ==
    /\ r_pc = "call"
    /\ r_invocations' = 1
    /\ r_pc' = "returned"
    /\ UNCHANGED <<r_first, r_error>>
    /\ UNCHANGED NotRetry

\* Lines 67-71: the first func() raises; a transient failure is kept and the
\* loop goes round, any other leaves at once.
RetryFirstRaises ==
    /\ r_pc = "call"
    /\ r_invocations' = 1
    /\ \E exc \in Failures :
        /\ r_first' = exc
        /\ IF ShouldRetry(0, exc)
           THEN r_pc' = "again" /\ r_error' = r_error
           ELSE r_pc' = "raised" /\ r_error' = exc
    /\ UNCHANGED NotRetry

\* Lines 64-66, second round.
RetrySecondReturns ==
    /\ r_pc = "again"
    /\ r_invocations' = 2
    /\ r_pc' = "returned"
    /\ UNCHANGED <<r_first, r_error>>
    /\ UNCHANGED NotRetry

\* Lines 67-71, second round: attempt is 1, the failure leaves.
RetrySecondRaises ==
    /\ r_pc = "again"
    /\ r_invocations' = 2
    /\ \E exc \in CallErrors :
        /\ ~ShouldRetry(1, exc)
        /\ r_error' = exc
    /\ r_pc' = "raised"
    /\ UNCHANGED r_first
    /\ UNCHANGED NotRetry

NextRetry ==
    \/ RetryFirstReturns
    \/ RetryFirstRaises
    \/ RetrySecondReturns
    \/ RetrySecondRaises

SpecRetry == InitRetry /\ [][NextRetry]_vars

\* ------------------------------------------------------------------------
\* Properties of chunk_text (checked under SpecChunk)
\* ------------------------------------------------------------------------
IsWordChar(c) == c \notin {SP, NL}

\* The positions in the text after which a chunk ends and another begins.
RECURSIVE PrefixLen(_, _)
PrefixLen(chs, k) == IF k = 0 THEN 0 ELSE Len(chs[k]) + PrefixLen(chs, k - 1)

Boundaries(chs) == {PrefixLen(chs, k) : k \in 1..(Len(chs) - 1)}

\* Every run of non-separator characters of t is at most lim long.
WordsFit(t, lim) ==
    \A i \in 1..(Len(t) - lim) : \E j \in i..(i + lim) : ~IsWordChar(t[j])

\* C1: for every text and every limit >= 1, the chunks chunk_text returns,
\* concatenated in order, are the text itself.
C1_ChunkRoundTrip ==
    chunk_pc = "returned" => Concat(chunks) = text

\* C1 witness: a text with separators was split into several chunks.
C1_Witness ==
    /\ chunk_pc = "returned"
    /\ Len(chunks) >= 2
    /\ \E i \in 1..(Len(text) - 1) : text[i] = NL /\ text[i + 1] = NL
    /\ SP \in Range(text)

\* C2: for every non-empty text and every limit >= 1, every chunk has a length
\* between 1 and limit.
C2_ChunkLengthBounds ==
    (chunk_pc = "returned" /\ text # <<>>) =>
        \A i \in 1..Len(chunks) : 1 <= Len(chunks[i]) /\ Len(chunks[i]) <= limit

\* C2 witness: several chunks, the last one shorter than the limit and a
\* word that had to be cut.
C2_Witness ==
    /\ chunk_pc = "returned"
    /\ Len(chunks) >= 3
    /\ limit >= 2
    /\ Len(chunks[Len(chunks)]) < limit
    /\ Len(chunks[1]) = limit

\* C3: when every run of non-separator characters is at most limit long, no
\* chunk boundary falls between two characters of one word.
C3_NoMidWordSplit ==
    (chunk_pc = "returned" /\ WordsFit(text, limit)) =>
        \A p \in Boundaries(chunks) :
            (p >= 1 /\ p < Len(text)) => ~(IsWordChar(text[p]) /\ IsWordChar(text[p + 1]))

\* ------------------------------------------------------------------------
\* Properties of _run_with_retry and generate_images (checked under SpecImages)
\* ------------------------------------------------------------------------
IsFailure(outcome) == outcome # Returned

\* C4: _run_with_retry invokes the wrapped call at most twice; the second
\* invocation happens only after a first failure classified as transient; a
\* non-transient first failure leaves at once, and so does any second failure.
C4_RetryAtMostOnce ==
    /\ Len(rlog) <= 2
    /\ \A i \in 1..(Len(rlog) - 1) : IsFailure(rlog[i]) /\ _is_transient_error(rlog[i])
    /\ (Len(rlog) = 1 /\ IsFailure(rlog[1]) /\ _is_transient_error(rlog[1]))
           => (retry_exit = "running" /\ attempt = 1 /\ last_error = rlog[1]
               /\ img_pc \in {"images_api", "model"})
    /\ (Len(rlog) = 1 /\ IsFailure(rlog[1]) /\ ~_is_transient_error(rlog[1]))
           => retry_exit = "raised"
    /\ (Len(rlog) = 2 /\ IsFailure(rlog[2])) => retry_exit = "raised"
    /\ (retry_exit = "raised" /\ img_pc = "raised") => g_error = rlog[Len(rlog)]
    /\ (retry_exit = "raised" /\ img_pc # "raised")
           => (rlog[Len(rlog)].cls = "_ImagesApiUnavailable" /\ img_pc = "model")

\* C4 witness: a transient failure followed by a second transient failure,
\* which left generate_images after two invocations.
C4_Witness ==
    /\ img_pc = "raised"
    /\ Len(rlog) = 2
    /\ _is_transient_error(rlog[1])
    /\ _is_transient_error(rlog[2])
    /\ g_error = rlog[2]

\* C8: when generate_images returns, it returns between 1 and n payloads, and
\* they are the first payloads produced, in production order.
C8_ImageCount ==
    img_pc = "returned" =>
        /\ 1 <= Len(g_result)
        /\ Len(g_result) <= g_args.n
        /\ g_result = SubSeq(produced, 1, Min2(g_args.n, Len(produced)))

\* C8 witness: more payloads than asked for were produced, over both passes
\* and through both interfaces, and the result was cut to n.
C8_Witness ==
    /\ img_pc = "returned"
    /\ Len(produced) > g_args.n
    /\ g_args.n >= 2
    /\ attempts = 2
    /\ images_api = "callable"

\* The error of line 248.
NoImagesError == RaisedError("RuntimeError", "no_images_generated")

\* C17: generate_images returns what it obtained, without raising, when the
\* two passes gave fewer than n images but at least one; it raises
\* no_images_generated only when the passes are over and gave no image.
C17_PartialResult ==
    /\ (img_pc = "returned" /\ Len(images) < g_args.n) =>
          /\ g_result = images
          /\ g_result # <<>>
          /\ Len(passes) = max_attempts
          /\ attempts = max_attempts
    /\ (img_pc = "raised" /\ g_error = NoImagesError) =>
          /\ images = <<>>
          /\ Len(passes) = max_attempts
    /\ (img_pc = "loop" /\ attempts = max_attempts /\ images # <<>>) =>
          ENABLED GenReturn

\* Two passes gave one image where two or more were asked for, and it was
\* returned.
C17_Witness ==
    /\ img_pc = "returned"
    /\ Len(passes) = max_attempts
    /\ Len(g_result) = 1
    /\ g_args.n >= 2

\* The passes in which the Images surface was found unusable.
Unusable == {"missing", "not_callable", "rejected"}

\* C18: an Images surface that is missing, not callable, or that refuses
\* every call shape is no error of generate_images: _ImagesApiUnavailable
\* never reaches the caller, and the images of that pass are asked of the
\* stable surface, one call for each image still needed.
C18_UnavailableFallsBack ==
    /\ (img_pc = "raised") => (g_error.cls # "_ImagesApiUnavailable")
    /\ \A i \in 1..Len(passes) :
          (passes[i].preferred \in Unusable) =>
              \/ passes[i].stable = passes[i].need
              \/ /\ i = Len(passes)
                 /\ passes[i].stable < passes[i].need
                 /\ \/ img_pc = "model"
                    \/ img_pc = "raised" /\ g_error \in CallErrors

\* Every call shape was refused, the stable surface gave the image, and
\* generate_images returned it.
C18_Witness ==
    /\ img_pc = "returned"
    /\ Len(passes) = 1
    /\ passes[1].preferred = "rejected"
    /\ passes[1].stable = passes[1].need
    /\ g_result # <<>>

\* C19 as stated: at most two passes, and every pass first tries the Images
\* surface.
C19_EveryPassPreferredFirst ==
    /\ Len(passes) <= max_attempts
    /\ \A i \in 1..Len(passes) : passes[i].preferred # "skipped"

\* C19, amended: generate_images runs at most two passes, each for the count
\* still missing. Only the first pass tries the Images surface, and it calls
\* the stable surface only when the Images surface is unusable; the second
\* pass calls the stable surface alone. A pass through the stable surface
\* makes one call per image still missing.
C19_PassOrder ==
    /\ Len(passes) <= max_attempts
    /\ \A i \in 1..Len(passes) :
          /\ passes[i].need >= 1
          /\ passes[i].stable <= passes[i].need
          /\ (i = 1) =>
                /\ passes[i].need = g_args.n
                /\ passes[i].preferred # "skipped"
                /\ (passes[i].preferred \notin Unusable) => (passes[i].stable = 0)
          /\ (i > 1) =>
                /\ passes[i].preferred = "skipped"
                /\ passes[i].need <= g_args.n
                /\ (img_pc \in {"model", "raised"}) =>
                      (passes[i].need = g_args.n - Len(images))
          /\ (i < Len(passes) \/ img_pc \in {"loop", "returned"}) =>
                \/ passes[i].preferred = "returned" /\ passes[i].stable = 0
                \/ passes[i].preferred \in Unusable \cup {"skipped"}
                      /\ passes[i].stable = passes[i].need

\* The Images surface gave one image of three in the first pass, and the
\* second pass made two calls of the stable surface.
C19_Witness ==
    /\ Len(passes) = max_attempts
    /\ passes[1].preferred = "returned"
    /\ passes[1].need = 3
    /\ passes[2].preferred = "skipped"
    /\ passes[2].need = 2
    /\ passes[2].stable = 2
    /\ img_pc = "returned"

\* An argument that generate_images does not take.
BadArguments ==
    \/ g_args.blank
    \/ g_args.n < 1
    \/ g_args.n > 4
    \/ g_args.fmt \notin {"png", "PNG"}

\* C20: a blank prompt, a count outside 1..4 or a format other than png ends
\* generate_images with a ValueError before either surface is called; an
\* aspect that is not in the table is no error and gives the default size.
C20_ValidationFirst ==
    /\ BadArguments =>
          /\ passes = <<>>
          /\ produced = <<>>
          /\ rlog = <<>>
          /\ img_pc \in {"call", "raised"}
          /\ (img_pc = "raised") => (g_error.cls = "ValueError")
    /\ (~BadArguments /\ img_pc = "raised") => (g_error.cls # "ValueError")
    /\ (g_args.aspect = "wide") => (SizeStr(g_args.aspect) = "1024x1536")

\* A count of five was refused.
C20_Witness ==
    /\ g_args.n = 5
    /\ ~g_args.blank
    /\ g_args.fmt = "png"
    /\ img_pc = "raised"
    /\ g_error = RaisedError("ValueError", "n must be between 1 and 4")

\* ------------------------------------------------------------------------
\* Properties of the delivery (checked under SpecDelivery)
\* ------------------------------------------------------------------------
\* The delivery runs send_images_and_prompt.
InSip ==
    \/ tg_args.entry = "send_images_and_prompt"
    \/ (tg_args.entry = "send_images_with_caption" /\ tg_args.images # <<>>)

SameCall(c, d) == c.op = d.op /\ c.arg = d.arg

IsFlood(c) == c.res = "FloodWaitError"

\* A wrapped call is still running: neither the delivery returned nor raised.
Pending == tg_pc \notin {"returned", "raised"}

\* The parts of C5 that do not speak of the re-invocation after a first signal.
FloodRetryShape ==
    \A i \in 1..Len(calls) :
        /\ calls[i].attempts \in {1, 2}
        /\ calls[i].attempts = 2 =>
               (i > 1 /\ IsFlood(calls[i - 1]) /\ calls[i - 1].attempts = 1
                /\ SameCall(calls[i], calls[i - 1]))
        /\ (IsFlood(calls[i]) /\ calls[i].attempts = 1 /\ i < Len(calls)) =>
               (calls[i + 1].attempts = 2 /\ SameCall(calls[i + 1], calls[i]))
        /\ (IsFlood(calls[i]) /\ calls[i].attempts = 2) =>
               (i = Len(calls) /\ tg_pc = "raised" /\ tg_error.cls = "FloodWaitError")
        /\ calls[i].res \notin {"ok", "FloodWaitError"} =>
               (i = Len(calls) /\ tg_pc = "raised" /\ tg_error.cls = calls[i].res)

FirstFloodIsLast ==
    calls # <<>> /\ IsFlood(calls[Len(calls)]) /\ calls[Len(calls)].attempts = 1

\* C5 as stated: a wrapped channel call invokes its operation at most twice;
\* after a first rate-limit signal the operation is invoked once more (while
\* the first signal is the last call made, the retry is still to come), a
\* second signal is fatal, any other exception propagates without a retry.
C5_ReinvokedAfterFirstFlood ==
    /\ FloodRetryShape
    /\ FirstFloodIsLast => Pending

\* C5, amended: as above, except that _execute_with_retry gets the client
\* again before the second invocation (line 221, outside the try block), and
\* when that raises the exception propagates and the operation is not invoked
\* a second time.
C5_FloodRetryBounded ==
    /\ FloodRetryShape
    /\ FirstFloodIsLast =>
           \/ Pending
           \/ /\ tg_pc = "raised"
              /\ tg_error.cls \in {"RuntimeError", "ConnectionError"}
              /\ ~InSip

\* A delivery where one call succeeded on its second invocation and a later
\* call met a second rate-limit signal.
C5_Witness ==
    /\ tg_pc = "raised"
    /\ \E i, j \in 1..Len(calls) :
        /\ i < j
        /\ calls[i].attempts = 2 /\ calls[i].res = "ok"
        /\ calls[j].attempts = 2 /\ IsFlood(calls[j])

\* Lines 313-342: the channel calls of a complete send_images_and_prompt, in
\* program order.
ExpectedCalls ==
    LET imgs == tg_args.images
        n == Len(imgs)
        uploads == [i \in 1..n |-> [op |-> "upload_file", arg |-> imgs[i]]]
        album == IF n > 0
                 THEN <<[op |-> "send_file", arg |-> [i \in 1..n |-> Handle(imgs[i])]]>>
                 ELSE <<>>
        sends == [i \in 1..Len(TgChunks) |->
                    [op |-> "send_message", arg |-> [chunk |-> i, text |-> TgChunks[i]]]]
    IN  uploads \o album \o sends

\* Calls among the first i that succeeded.
OkCount(i) == Cardinality({j \in 1..i : calls[j].res = "ok"})

\* C9: send_images_and_prompt makes its channel calls one after another in
\* the order uploads (input order), album, chunks (chunk order, one message
\* each): every call made is the one that follows the calls that succeeded so
\* far, so nothing is sent before its predecessor succeeded, and a delivery
\* that returns has made them all.
C9_CallOrder ==
    InSip =>
        /\ \A i \in 1..Len(calls) :
              LET k == OkCount(i - 1)
              IN  /\ k < Len(ExpectedCalls)
                  /\ SameCall(calls[i], ExpectedCalls[k + 1])
        /\ tg_pc = "returned" => OkCount(Len(calls)) = Len(ExpectedCalls)

\* A delivery of two images and two chunks that returned after a retried call.
C9_Witness ==
    /\ InSip
    /\ tg_pc = "returned"
    /\ Len(tg_args.images) >= 2
    /\ Len(TgChunks) >= 2
    /\ \E i \in 1..Len(calls) : IsFlood(calls[i])

\* A call that ended the wrapper with an exception.
IsFatal(c) == c.res # "ok" /\ ~(IsFlood(c) /\ c.attempts = 1)

\* C10: inside send_images_and_prompt a failed upload, album send or chunk
\* send (a second rate-limit signal included) is the last channel call made:
\* the delivery has raised that error, and the calls that would follow, the
\* remaining chunks among them, are not made.
C10_FailureAborts ==
    InSip =>
        \A i \in 1..Len(calls) :
            IsFatal(calls[i]) =>
                /\ i = Len(calls)
                /\ tg_pc = "raised"
                /\ tg_error.cls = calls[i].res
                /\ OkCount(i) < Len(ExpectedCalls)

\* The first of two chunks failed; the second one is never sent.
C10_Witness ==
    /\ InSip
    /\ tg_pc = "raised"
    /\ Len(TgChunks) >= 2
    /\ calls # <<>>
    /\ LET last == calls[Len(calls)]
       IN  /\ IsFatal(last)
           /\ last.op = "send_message"
           /\ last.arg.chunk < Len(TgChunks)

\* ------------------------------------------------------------------------
\* Properties of generate_prompt_text (checked under SpecPromptFair)
\* ------------------------------------------------------------------------
\* generate_prompt_text has ended: it returned a prompt or raised.
PromptDone ==
    \/ (p_pc = "returned" /\ p_result # <<>>)
    \/ (p_pc = "raised" /\ p_error # NoError)

\* C6: one call of generate_prompt_text composes at most 2 user prompts and
\* creates at most 2 external runs (never more runs than compositions), and,
\* every retrieve returning and every sleep ending, it ends by returning a
\* prompt or by raising.
C6_BoundedAttempts ==
    /\ [](compositions <= PROMPT_ATTEMPTS /\ runs <= PROMPT_ATTEMPTS /\ runs <= compositions)
    /\ <>PromptDone

\* Both attempts were used: two compositions, two runs, and the call ended.
C6_Witness ==
    /\ PromptDone
    /\ compositions = PROMPT_ATTEMPTS
    /\ runs = PROMPT_ATTEMPTS

\* C7: a string that generate_prompt_text returns is not empty, is its own
\* sanitized form, and is accepted by validate_prompt; it is the only text of
\* the call that the guard accepted, every earlier attempt having been
\* rejected.
C7_ReturnedAccepted ==
    p_pc = "returned" =>
        /\ p_result # <<>>
        /\ sanitize(p_result) = p_result
        /\ \A verdict \in validate_prompt(p_result) : verdict.ok
        /\ verdicts # <<>>
        /\ \A i \in 1..Len(verdicts) : verdicts[i].ok <=> i = Len(verdicts)

\* The first attempt was rejected and the second one returned a prompt of
\* the greatest length allowed.
C7_Witness ==
    /\ p_pc = "returned"
    /\ p_attempt = 1
    /\ Len(verdicts) = 2
    /\ Len(p_result) = MAX_LENGTH

\* ------------------------------------------------------------------------
\* More properties of the delivery (checked under SpecDelivery)
\* ------------------------------------------------------------------------
\* The delivery was given images (send_text takes none).
TakesImages == tg_args.entry \in {"send_images_and_prompt", "send_images_with_caption"}

\* Lines 305-306 raised: the client or the target entity could not be had.
SetupFailed ==
    /\ tg_args.entry = "send_images_and_prompt"
    /\ tg_pc = "raised"
    /\ tg_error.cls \in {"RuntimeError", "ConnectionError"}

OnlyTextCalls ==
    /\ uploaded_files = <<>>
    /\ \A i \in 1..Len(calls) : calls[i].op = "send_message"

HasMarker(c) == c.arg.text.last = NoImagesMarker

\* C12 as stated: a delivery without images that returns has sent exactly one
\* text message, which ends with the "(no images)" marker, and has uploaded
\* nothing and sent no album.
C12_SingleMarkedMessage ==
    (TakesImages /\ tg_args.images = <<>> /\ tg_pc = "returned") =>
        /\ OnlyTextCalls
        /\ OkCount(Len(calls)) = 1
        /\ \A i \in 1..Len(calls) : calls[i].res = "ok" => HasMarker(calls[i])

\* C12, amended: without images no delivery uploads anything or sends an
\* album. send_images_with_caption sends one text message, the sanitized
\* caption followed by the "(no images)" marker; send_images_and_prompt
\* sends the "Prompt:" text as usual, one message per chunk and none of them
\* with the marker.
C12_NoImagesDelivery ==
    (TakesImages /\ tg_args.images = <<>>) =>
        /\ OnlyTextCalls
        /\ tg_args.entry = "send_images_with_caption" =>
              /\ \A i \in 1..Len(calls) :
                    /\ calls[i].arg.chunk = 0
                    /\ HasMarker(calls[i])
                    /\ calls[i].arg.text.length <= CAPTION_LIMIT + Len(NoImagesMarker)
              /\ OkCount(Len(calls)) <= 1
              /\ tg_pc = "returned" => OkCount(Len(calls)) = 1
        /\ tg_args.entry = "send_images_and_prompt" =>
              /\ \A i \in 1..Len(calls) : calls[i].arg.chunk >= 1 /\ ~HasMarker(calls[i])
              /\ tg_pc = "returned" => OkCount(Len(calls)) = Len(TgChunks)

\* send_images_with_caption without images returned after its one message
\* went through on the second invocation.
C12_Witness ==
    /\ tg_args.entry = "send_images_with_caption"
    /\ tg_args.images = <<>>
    /\ tg_pc = "returned"
    /\ Len(calls) = 2
    /\ HasMarker(calls[2])

\* ------------------------------------------------------------------------
\* More properties of generate_prompt_text (checked under SpecPromptFair)
\* ------------------------------------------------------------------------
GuardBlocked == PromptError("RuntimeError", <<"prompt_guard_blocked">>)

\* The guard verdicts so far that were rejections.
Rejections == {i \in 1..Len(verdicts) : ~verdicts[i].ok}

\* The first attempt was rejected.
FirstRejected == Len(verdicts) >= 1 /\ ~verdicts[1].ok

\* What holds in every state about rejections: the reason of the latest one
\* is in last_reason; a rejection that is not the last attempt's raises and
\* logs nothing, and the attempt after it runs on a composition of its own;
\* the guard-blocked error is raised only with every attempt rejected.
RejectionState ==
    /\ Rejections # {} =>
          last_reason = verdicts[CHOOSE i \in Rejections : \A j \in Rejections : j <= i].note
    /\ (FirstRejected /\ Len(verdicts) = 1 /\ p_pc = "loop") =>
          (p_attempt = 1 /\ LoopContinues(p_attempt) /\ p_error = NoError
           /\ error_logs = <<>> /\ compositions = 1)
    /\ p_pc \in {"setup", "poll", "extract"} => compositions = Len(verdicts) + 1
    /\ p_error = GuardBlocked =>
          (p_pc = "raised" /\ Len(verdicts) = PROMPT_ATTEMPTS
           /\ Rejections = 1..PROMPT_ATTEMPTS)

\* C13: a rejection by the guard on the first attempt raises nothing:
\* the reason is recorded and a second attempt starts with a composition of
\* its own; the guard-blocked error is raised only after every attempt was
\* rejected.
C13_RejectionRegenerates ==
    /\ []RejectionState
    /\ (FirstRejected /\ Len(verdicts) = 1 /\ p_pc = "loop") ~> (compositions = 2)

\* The first attempt was rejected and the run of the second attempt is being
\* polled.
C13_Witness ==
    /\ FirstRejected
    /\ Len(verdicts) = 1
    /\ p_pc = "poll"
    /\ compositions = 2
    /\ runs = 2
    /\ p_error = NoError

\* The message of an exception holds the reason.
Carries(msg, reason) ==
    \E i \in 1..(Len(msg) - Len(reason) + 1) : SubSeq(msg, i, i + Len(reason) - 1) = reason

\* Every attempt was made and rejected, and the call has ended.
AllRejected == p_pc = "raised" /\ Rejections = 1..PROMPT_ATTEMPTS

\* C14 as stated: when no attempt is accepted, the error raised carries the
\* rejection reason of the last attempt.
C14_ErrorCarriesReason ==
    AllRejected => (p_error.cls = "RuntimeError" /\ Carries(p_error.msg, last_reason))

\* C14, amended: when no attempt is accepted, generate_prompt_text raises
\* RuntimeError("prompt_guard_blocked"), whose message does not hold the
\* reason; the rejection reason of the last attempt is the reason of the one
\* error record that is logged.
C14_BlockedLogsReason ==
    AllRejected =>
        /\ p_error = GuardBlocked
        /\ ~Carries(p_error.msg, last_reason)
        /\ last_reason = verdicts[PROMPT_ATTEMPTS].note
        /\ error_logs = <<last_reason>>

\* Both attempts were rejected, for different reasons.
C14_Witness ==
    /\ AllRejected
    /\ p_error = GuardBlocked
    /\ verdicts[1].note # verdicts[PROMPT_ATTEMPTS].note

\* The runs that ended in a terminal status other than "completed".
FailedRuns == {i \in 1..Len(run_statuses) : run_statuses[i] # "completed"}

\* The error raised for a run that ended in the given status (line 98).
RunError(status) == PromptError("RuntimeError", <<"assistant_run", status>>)

\* C15: a run that ends failed, cancelled or expired ends the call at once,
\* on whichever attempt: the error raised is named after the status, the
\* failed run is the last run requested and no instruction is composed after
\* it.
C15_RunFailureIsFatal ==
    \A i \in FailedRuns :
        /\ i = Len(run_statuses)
        /\ p_pc = "raised"
        /\ p_error = RunError(run_statuses[i])
        /\ compositions = i
        /\ runs = i
        /\ Len(verdicts) = i - 1
        /\ p_result = <<>>

\* The run of the second attempt expired, after a rejected first attempt.
C15_Witness ==
    /\ Len(run_statuses) = PROMPT_ATTEMPTS
    /\ run_statuses[1] = "completed"
    /\ run_statuses[PROMPT_ATTEMPTS] = "expired"
    /\ p_pc = "raised"
    /\ p_error = RunError("expired")

\* The error of line 41.
RunTimeout == PromptError("RuntimeError", <<"assistant_run_timeout">>)

\* While polling, the time spent never exceeds the deadline by more than one
\* interval; the timeout error is raised past the deadline only, for a run
\* never seen in a terminal status, and no attempt follows it.
PollState ==
    /\ (p_pc = "poll") => (p_elapsed <= POLL_TIMEOUT + POLL_INTERVAL)
    /\ (p_error = RunTimeout) =>
          /\ p_pc = "raised"
          /\ p_elapsed > POLL_TIMEOUT
          /\ Len(run_statuses) = runs - 1
          /\ compositions = runs
          /\ Len(verdicts) = runs - 1
          /\ p_result = <<>>

\* C16: the polling loop of _poll_run always ends: a run never seen in a
\* terminal status ends it with the timeout error once the deadline is
\* exceeded, and the timeout ends generate_prompt_text without another attempt.
C16_PollingEnds ==
    /\ []PollState
    /\ ((p_pc = "poll") ~> (p_pc # "poll"))

\* The second attempt's run timed out after several polls.
C16_Witness ==
    /\ p_error = RunTimeout
    /\ p_pc = "raised"
    /\ p_elapsed > POLL_TIMEOUT
    /\ runs = PROMPT_ATTEMPTS
    /\ run_statuses = <<"completed">>

\* ------------------------------------------------------------------------
\* Properties of the shared client (checked under SpecClient)
\* ------------------------------------------------------------------------
\* The callers that are setting a client up.
Establishing == {c \in Callers : c_pc[c] \in {"connect", "authorize", "reject", "sign_in"}}

\* C21: whatever the interleaving of the callers, a client is constructed,
\* connected and authorized by the holder of the lock only, one client is
\* constructed for each time there is no live connection (at the start, after
\* a close, a loss or a failed set-up), the handle only ever holds an
\* authorized client, and all the returns that hand out a connected client
\* between two losses of connection hand out the same one.
C21_SingleClient ==
    /\ \A c \in Establishing : _client_lock = c /\ c_client[c] # 0
    /\ \A c \in Callers : (c \notin Establishing) => (c_client[c] = 0)
    /\ created <= 1 + epoch + failures
    /\ (_client # 0) => (_client \in authorized)
    /\ \A r \in returns : r.client \in authorized
    /\ \A r1, r2 \in returns :
          (r1.live /\ r2.live /\ r1.epoch = r2.epoch) => (r1.client = r2.client)

\* Every caller found no connection and went for the lock; one client was
\* made, and all got it: its maker, those that were waiting for the lock, and
\* a later call.
C21_Witness ==
    /\ created = 1
    /\ epoch = 0
    /\ failures = 0
    /\ \A c \in Callers : c_pc[c] = "returned" /\ c_got[c] = 1
    /\ {"created", "recheck"} \subseteq {r.via : r \in returns}

\* A step in which close_client completes.
CloseCompletes == \E c \in Callers : c_pc[c] = "close_disconnect" /\ c_pc'[c] = "closed"

\* C22: when close_client completes, the client it found is disconnected and
\* the handle is None; no _ensure_client call that returns afterwards hands
\* out a client that was closed: it hands out one constructed later.
C22_CloseResets ==
    /\ [][CloseCompletes => (_client' = 0 /\ ~connected'[_client] /\ _client \in closed')]_vars
    /\ [](\A r \in returns : r.fresh)
    /\ [](\A k \in closed : ~connected[k] /\ _client # k)

\* A client was closed, and a later call set up and returned a second one.
C22_Witness ==
    /\ closed = {1}
    /\ _client = 2
    /\ connected[2]
    /\ \E c \in Callers : c_pc[c] = "returned" /\ c_got[c] = 2

\* ------------------------------------------------------------------------
\* Properties of the pipeline run (checked under SpecMain)
\* ------------------------------------------------------------------------
StageOrder == <<"generate_prompt_text", "generate_images", "send_images_and_prompt">>

\* C23: main invokes generate_prompt_text, generate_images and
\* send_images_and_prompt in this order, each at most once and only after the
\* stage before it returned, and hands each stage what the stages before it
\* returned; when a stage raises, no stage follows, the failure is logged and
\* the same exception leaves main.
C23_StagesInOrder ==
    /\ Len(stage_calls) <= Len(StageOrder)
    /\ \A i \in 1..Len(stage_calls) :
          /\ stage_calls[i].stage = StageOrder[i]
          /\ (i < Len(stage_calls)) => (stage_calls[i].out.state = "returned")
          /\ (stage_calls[i].out.state = "raised") =>
                /\ m_pc = "raised"
                /\ m_error = stage_calls[i].out.err
                /\ m_logs # <<>>
                /\ m_logs[Len(m_logs)] = <<"error", m_error.cls>> \o m_error.msg
    /\ (Len(stage_calls) >= 2) =>
          /\ stage_calls[2].args.prompt = stage_calls[1].out.value
          /\ stage_calls[2].args.n = m_args.n
    /\ (Len(stage_calls) >= 3) =>
          /\ stage_calls[3].args.images = stage_calls[2].out.value
          /\ stage_calls[3].args.prompt = stage_calls[1].out.value
          /\ stage_calls[3].args.header.count = Len(stage_calls[2].out.value)
          /\ ~m_args.no_send
    /\ (m_pc = "raised") =>
          /\ stage_calls # <<>>
          /\ stage_calls[Len(stage_calls)].out.state = "raised"
    /\ (m_pc = "done") =>
          /\ m_error = NoError
          /\ Len(stage_calls) = IF m_args.no_send THEN 2 ELSE 3
          /\ \A i \in 1..Len(stage_calls) : stage_calls[i].out.state = "returned"

\* generate_images raised after the prompt was returned: delivery was never
\* invoked and the exception left main.
C23_Witness ==
    /\ m_pc = "raised"
    /\ Len(stage_calls) = 2
    /\ ~m_args.no_send
    /\ m_error = PromptError("RuntimeError", <<"no_images_generated">>)

\* ------------------------------------------------------------------------
\* Properties of the prompt guard (checked under SpecGuard)
\* ------------------------------------------------------------------------
\* C24: sanitize(sanitize(x)) = sanitize(x).
C24_SanitizeIdempotent ==
    (s_pc \in {"resanitized", "validated", "revalidated"}) => (s_twice = s_once)

\* A text with a run of five backticks and whitespace runs, which sanitize
\* changes and does not empty.
C24_Witness ==
    /\ s_pc = "resanitized"
    /\ s_text = TickRun(5) \o <<SP, NL>> \o TickRun(3) \o <<"a">>
    /\ s_once = <<TICK, TICK, SP, "a">>
    /\ s_twice = s_once

\* The violations of the sanitized text.
Validated == s_pc \in {"validated", "revalidated"}
HasForbidden == \E k \in FORBIDDEN_KEYWORDS : Contains(lower(s_once), k)
MissesRequired == \E k \in REQUIRED_KEYWORDS : ~Contains(lower(s_once), k)

\* C25: validate_prompt gives one reason, that of the first failed check in
\* the order empty, forbidden term, missing required term, too short, too
\* long, and the reason is empty exactly when the text is accepted.
C25_FirstViolationOnly ==
    Validated =>
        /\ v_first.ok = (v_first.note = <<>>)
        /\ IF s_once = <<>> THEN v_first.note = <<"empty_prompt">>
           ELSE IF HasForbidden
                THEN /\ Len(v_first.note) = 2
                     /\ v_first.note[1] = "forbidden_keyword"
                     /\ v_first.note[2] \in FORBIDDEN_KEYWORDS
                     /\ Contains(lower(s_once), v_first.note[2])
           ELSE IF MissesRequired
                THEN /\ Len(v_first.note) = 2
                     /\ v_first.note[1] = "missing_required"
                     /\ v_first.note[2] \in REQUIRED_KEYWORDS
                     /\ ~Contains(lower(s_once), v_first.note[2])
           ELSE IF Len(s_once) < 200 THEN v_first.note = <<"prompt_too_short">>
           ELSE IF Len(s_once) > 900 THEN v_first.note = <<"prompt_too_long">>
           ELSE v_first.ok

\* A text that is too short, holds a forbidden term and misses a required
\* term: the forbidden term is the reason.
C25_Witness ==
    /\ Validated
    /\ Len(s_once) = 50
    /\ HasForbidden
    /\ MissesRequired
    /\ v_first.note = <<"forbidden_keyword", Bikini>>

\* C26 as stated: two evaluations of validate_prompt on the same text return
\* the same pair.
C26_Deterministic ==
    (s_pc = "revalidated") => (v_second = v_first)

\* C27 as stated: a text that contains "nude", in any letter case, is
\* rejected with forbidden_keyword:nude.
C27_NudeReported ==
    (Validated /\ Contains(lower(s_text), Nude)) =>
        (v_first = Verdict(FALSE, <<"forbidden_keyword", Nude>>))

\* The sanitized text is not empty, holds no forbidden term and every
\* required term.
OtherwiseClean == s_once # <<>> /\ ~HasForbidden /\ ~MissesRequired

\* C28: an otherwise clean text is rejected as too short exactly when its
\* sanitized length is below 200, as too long exactly when it is above 900,
\* and is accepted in between, 200 and 900 included.
C28_LengthLimits ==
    (Validated /\ OtherwiseClean) =>
        /\ (v_first = Verdict(FALSE, <<"prompt_too_short">>)) = (Len(s_once) < 200)
        /\ (v_first = Verdict(FALSE, <<"prompt_too_long">>)) = (Len(s_once) > 900)
        /\ (v_first = Verdict(TRUE, <<>>)) = (200 <= Len(s_once) /\ Len(s_once) <= 900)

\* A fenced text whose sanitized length is exactly 200 was accepted.
C28_Witness ==
    /\ Validated
    /\ OtherwiseClean
    /\ Len(s_text) > 200
    /\ Len(s_once) = 200
    /\ v_first = Verdict(TRUE, <<>>)

\* The wrapper is between its first rate-limit signal and its single retry:
\* the last call failed with FloodWaitError on attempt 1 and the sleep of
\* lines 228-234 or 294-296 was taken.
SleptOnFlood ==
    /\ calls # <<>>
    /\ IsFlood(calls[Len(calls)])
    /\ calls[Len(calls)].attempts = 1

\* C29: on a first rate-limit signal the wrapper sleeps min(suggested, 30)
\* seconds before its single retry, or 1 second when the suggested duration
\* is zero or absent; the sleep is never longer than 30 seconds and never
\* shorter than 1 second.
C29_SleepBounds ==
    SleptOnFlood =>
        /\ wait_seconds >= 1
        /\ wait_seconds <= 30
        /\ (exc_seconds.isint /\ exc_seconds.v >= 1 /\ exc_seconds.v <= 30)
               => wait_seconds = exc_seconds.v
        /\ (exc_seconds.isint /\ exc_seconds.v > 30) => wait_seconds = 30
        /\ (~exc_seconds.isint \/ exc_seconds.v = 0) => wait_seconds = 1

\* A signal suggesting 31 seconds was slept on for 30, inside the wrapper of
\* send_images_and_prompt.
C29_Witness ==
    /\ SleptOnFlood
    /\ InFloodwaitWrapper
    /\ exc_seconds = IntAttr(31)
    /\ wait_seconds = 30

\* C30: chunk_text on a 9000-character text with limit 4096 and no unbroken
\* token longer than the limit returns exactly 3 chunks, the last one
\* non-empty and all of length <= 4096.
C30_Scenario ==
    (chunk_pc = "returned" /\ Len(text) = 9000 /\ limit = 4096 /\ WordsFit(text, limit)) =>
        /\ Len(chunks) = 3
        /\ chunks[3] # <<>>
        /\ \A i \in 1..Len(chunks) : Len(chunks[i]) <= 4096

\* A 9000-character text with paragraphs and spaces came back in three
\* chunks, the last of them what two full chunks left over.
C30_Witness ==
    /\ chunk_pc = "returned"
    /\ Len(text) = 9000
    /\ limit = 4096
    /\ WordsFit(text, limit)
    /\ \E i \in 1..(Len(text) - 1) : text[i] = NL /\ text[i + 1] = NL
    /\ Len(chunks) = 3
    /\ Len(chunks[3]) = 9000 - 2 * 4096

\* The Images surface returned fewer images than asked for in the first pass,
\* and every generate_content call of the second pass returned exactly one
\* image.
PreferredShortStableOneEach ==
    /\ Len(passes) = 2
    /\ passes[1].preferred = "returned"
    /\ passes[1].stable = 0
    /\ passes[2].need >= 1
    /\ passes[2].stable = passes[2].need
    /\ passes[2].one_each

\* C31: when the preferred interface yields k < n images and each stable call
\* yields one image, generate_images returns exactly n payloads and raises no
\* error; for n = 2 with one image from each interface it returns 2 payloads.
C31_TopUpReturnsN ==
    (img_pc \in {"returned", "raised"} /\ PreferredShortStableOneEach) =>
        /\ img_pc = "returned"
        /\ Len(g_result) = g_args.n
        /\ \A i \in 1..Len(g_result) : g_result[i] = produced[i]
        /\ Len(produced) = g_args.n

\* n = 2: one image from the Images surface, one from generate_content.
C31_Witness ==
    /\ img_pc = "returned"
    /\ PreferredShortStableOneEach
    /\ g_args.n = 2
    /\ passes[2].need = 1
    /\ Len(g_result) = 2

Accepted(job_id) == \E i \in 1..Len(responses) : responses[i].job_id = job_id

\* C32 as stated: every job accepted by the run-now boundary eventually
\* triggers one pipeline run for that job, while the boundary reports
\* acceptance (queued=true and the job id) at once.
C32_AcceptedJobRuns ==
    \A job_id \in JobIds : Accepted(job_id) ~> (job_id \in pipeline_runs)

\* C32 amended: every job accepted by the run-now boundary is put on the
\* in-memory queue and stays there, and no pipeline run is started for it;
\* the boundary reports acceptance (queued=true and the job id) in the step
\* that enqueues the job, and leaves no job in the logging context.
C32_AcceptedJobQueued ==
    /\ pipeline_runs = {}
    /\ job_context = 0
    /\ Len(_queue) = Len(responses)
    /\ \A i \in 1..Len(responses) :
           /\ responses[i].queued
           /\ responses[i].job_id = _queue[i]
    /\ \A i, j \in 1..Len(_queue) : (i # j) => (_queue[i] # _queue[j])

\* Two requests were handled and a third has arrived.
C32_Witness ==
    /\ Len(responses) = 2
    /\ requests = 1
    /\ Len(_queue) = 2
    /\ Len(q_logs) = 4

\* The send_file calls made so far, and the uploads that succeeded before
\* call i.
AlbumCalls == {i \in 1..Len(calls) : calls[i].op = "send_file"}

UploadsBefore(i) ==
    {j \in 1..(i - 1) : calls[j].op = "upload_file" /\ calls[j].res = "ok"}

\* C33: with images, send_images_and_prompt sends the album in exactly one
\* grouped media send (invoked a second time only to retry a first
\* rate-limit signal), only after every image has been uploaded
\* successfully, and the album holds exactly one uploaded handle per input
\* image, in input order.
C33_OneAlbumAfterUploads ==
    (InSip /\ tg_args.images # <<>>) =>
        LET n == Len(tg_args.images)
            sent == {i \in AlbumCalls : calls[i].res = "ok"}
        IN  /\ Cardinality(sent) <= 1
            /\ (tg_pc = "returned") => (Cardinality(sent) = 1)
            /\ Cardinality(AlbumCalls) <= 2
            /\ \A i \in AlbumCalls :
                   /\ calls[i].attempts = 2 =>
                          (i - 1 \in AlbumCalls /\ calls[i - 1].res = "FloodWaitError")
                   /\ Cardinality(UploadsBefore(i)) = n
                   /\ Len(calls[i].arg) = n
                   /\ \A k \in 1..n : calls[i].arg[k] = [file |-> tg_args.images[k]]
                   /\ \A j \in (i + 1)..Len(calls) : calls[j].op # "upload_file"

\* Two images were uploaded, the first upload after a retry, and the album
\* went out on its second invocation.
C33_Witness ==
    /\ InSip
    /\ tg_pc = "returned"
    /\ Len(tg_args.images) = 2
    /\ Cardinality(AlbumCalls) = 2
    /\ \E i \in AlbumCalls : calls[i].res = "ok" /\ calls[i].attempts = 2 /\ Len(calls[i].arg) = 2

\* The tokens of the claim, and the upper-case letters that occur in the
\* messages with their lower-case forms.
ClaimTokens ==
    { <<" ", "5", "0", "0">>, <<" ", "5", "0", "2">>, <<" ", "5", "0", "3">>,
      <<" ", "5", "0", "4">>, <<"5", "x", "x">>,
      <<"t", "e", "m", "p", "o", "r", "a", "r", "i", "l", "y", " ",
        "u", "n", "a", "v", "a", "i", "l", "a", "b", "l", "e">> }

ClaimLowered(m) ==
    LET pairs == { <<"H", "h">>, <<"T", "t">>, <<"P", "p">>, <<"X", "x">>,
                   <<"U", "u">>, <<"E", "e">> }
    IN  [i \in 1..Len(m) |->
            IF \E p \in pairs : p[1] = m[i]
            THEN (CHOOSE p \in pairs : p[1] = m[i])[2]
            ELSE m[i]]

\* The failures the claim calls transient.
ClaimTransient(exc) ==
    \/ exc.cls = "ConnectionError"
    \/ exc.cls = "TimeoutError"
    \/ \E a \in {exc.status_code, exc.code, exc.response_status} :
           a.isint /\ a.v \in 500..599
    \/ \E token \in ClaimTokens :
           \E i \in 0..(Len(exc.message) - Len(token)) :
               SubSeq(ClaimLowered(exc.message), i + 1, i + Len(token)) = token

\* C34: a failure is classified transient exactly when it is a connection or
\* timeout error, or carries an integer status_code, code or
\* response.status_code in 500..599, or its lower-cased message contains one
\* of the tokens; every other failure (status 400 or 429, say) is
\* non-transient and is never retried.
C34_TransientExactly ==
    (r_first # NoFailure) =>
        /\ ClaimTransient(r_first) <=> (r_pc = "again" \/ r_invocations = 2)
        /\ ~ClaimTransient(r_first) =>
               (r_pc = "raised" /\ r_error = r_first /\ r_invocations = 1)

\* A failure whose only transient mark is a response status of 599 (its
\* status_code is 429, its code 600) was retried, and the second call returned.
C34_Witness ==
    /\ r_pc = "returned"
    /\ r_invocations = 2
    /\ r_first = Exc("ApiError", IntAttr(429), IntAttr(600), IntAttr(599), Msg429)

EmptyPromptError == PromptError("RuntimeError", <<"assistant_empty_prompt">>)

\* C35: when the text extracted from a completed run is blank after
\* sanitize, generate_prompt_text fails with the empty-prompt error at once
\* and starts no further attempt, also on the first attempt: the blank text
\* gets no guard verdict and drives no regeneration.
C35_BlankFailsAtOnce ==
    /\ blanks <= 1
    /\ (blanks = 1) =>
           /\ p_pc = "raised"
           /\ p_error = EmptyPromptError
           /\ compositions = p_attempt + 1
           /\ runs = compositions
           /\ Len(verdicts) = p_attempt
           /\ \A i \in 1..Len(verdicts) : verdicts[i].note # <<"empty_prompt">>
    /\ (p_error = EmptyPromptError) => (blanks = 1)

\* The first attempt extracted a blank text: one composition, one run, no
\* verdict, and the call has raised.
C35_Witness ==
    /\ blanks = 1
    /\ p_pc = "raised"
    /\ p_attempt = 0
    /\ compositions = 1
    /\ verdicts = <<>>

\* C36: every generate_prompt_text call ends with exactly one terminal log
\* record: one error-level record on a failure, whichever step failed (never
\* none, never two), or one success record carrying the length and the
\* truncated hash of the prompt; a call still running has logged neither.
C36_OneTerminalRecord ==
    /\ (p_pc = "raised") => (Len(error_logs) = 1 /\ info_logs = <<>>)
    /\ (p_pc = "returned") =>
           /\ error_logs = <<>>
           /\ Len(info_logs) = 1
           /\ info_logs[1].len = Len(p_result)
           /\ info_logs[1].sha1.digest_of = p_result
           /\ info_logs[1].sha1.hex_chars = 12
    /\ (p_pc \notin {"raised", "returned"}) => (error_logs = <<>> /\ info_logs = <<>>)

\* A failure that was logged where it was raised, after a first attempt the
\* guard rejected, left one error record.
C36_Witness ==
    /\ p_pc = "raised"
    /\ logged_error
    /\ Len(verdicts) = 1
    /\ Len(error_logs) = 1

\* generate_images (asked for at most two images) and the deliveries, each
\* started from its own call.
InitSignature ==
    \/ InitImages /\ g_args.n <= N_MIN + 1
    \/ InitDelivery

SpecSignature == InitSignature /\ [][NextImages \/ NextDelivery]_vars

Unsigned(payloads) == SelectSeq(payloads, LAMBDA payload : ~payload.png)

\* C37: a payload without the PNG signature is only warned about. In
\* generate_images every decoded payload is kept in production order, the
\* warnings are those of the unsigned payloads, the list returned is the
\* first n payloads whatever their signature, and no_images_generated is
\* raised only when nothing was decoded. In a delivery every upload is given
\* the input image itself, a delivery that returned has uploaded every image
\* and warned about the unsigned ones, and a delivery raises only before the
\* first signature check or on a failed channel call.
C37_SignatureOnlyWarns ==
    /\ \A i \in 1..Len(produced) : produced[i].id = i
    /\ sig_warnings = [i \in 1..Len(Unsigned(produced)) |-> Unsigned(produced)[i].id]
    /\ (img_pc = "returned") =>
           /\ Len(g_result) = (IF Len(produced) > g_args.n THEN g_args.n ELSE Len(produced))
           /\ \A i \in 1..Len(g_result) : g_result[i] = produced[i]
    /\ (img_pc = "raised" /\ g_error = NoImagesError) => (produced = <<>>)
    /\ \A j \in 1..Len(calls) :
           (calls[j].op = "upload_file") =>
               \E i \in 1..Len(tg_args.images) : calls[j].arg = tg_args.images[i]
    /\ \A i \in 1..Len(uploaded_files) : uploaded_files[i].file = tg_args.images[i]
    /\ (tg_pc = "returned" /\ tg_args.images # <<>>) =>
           /\ Len(uploaded_files) = Len(tg_args.images)
           /\ tg_warnings = Unsigned(tg_args.images)
    /\ (tg_pc = "raised") =>
           \/ calls = <<>> /\ tg_warnings = <<>>
           \/ calls # <<>> /\ calls[Len(calls)].res # "ok"

\* generate_images returned a list that holds a payload without the PNG
\* signature, after one warning.
C37_Witness ==
    /\ img_pc = "returned"
    /\ Len(sig_warnings) = 1
    /\ \E i \in 1..Len(g_result) : ~g_result[i].png

\* A generate_content call of the stable interface raised out of
\* generate_images.
StableCallFailed ==
    /\ img_pc = "raised"
    /\ retry_exit = "raised"
    /\ passes # <<>>
    /\ passes[Len(passes)].stable > 0

\* C38: a stable-interface call that fails with a non-transient error, or
\* with a second error after a transient one, raises that error out of
\* generate_images and no image is returned, whatever the earlier calls had
\* produced; a failure that did not end the call was a first, transient one.
C38_StableFailurePropagates ==
    /\ Len(rlog) <= 2
    /\ StableCallFailed =>
           /\ g_result = <<>>
           /\ g_error = rlog[Len(rlog)]
           /\ (Len(rlog) = 1) => ~_is_transient_error(rlog[1])
           /\ (Len(rlog) = 2) => _is_transient_error(rlog[1])
    /\ (img_pc = "model" /\ attempt > 0) =>
           /\ Len(rlog) = 1
           /\ rlog[1] # Returned
           /\ _is_transient_error(rlog[1])
    /\ (img_pc = "returned") => (retry_exit # "raised")

\* The preferred interface gave an image, a first stable call gave another,
\* and the next stable call failed twice: the call raised and returned nothing.
C38_Witness ==
    /\ StableCallFailed
    /\ images # <<>>
    /\ collected # <<>>
    /\ Len(rlog) = 2
    /\ g_result = <<>>

\* C39: no channel operation of a running delivery is issued on a client
\* that a concurrent close_client has already disconnected.
C39_NoOpOnClosedClient == c_issued.issued => ~c_issued.closed

\* C39 as amended: every operation of a delivery is issued on a client that
\* _ensure_client handed to a caller while close_client had not disconnected
\* it; an operation issued on a client close_client has disconnected was
\* issued after a connection was closed or lost since that hand-out.
C39_OpOnHandedClient ==
    c_issued.issued =>
        \E r \in returns :
            /\ r.client = c_issued.client
            /\ r.fresh
            /\ r.epoch <= c_issued.epoch
            /\ c_issued.closed => (r.epoch < c_issued.epoch /\ ~c_issued.live)

\* A delivery issued an operation on its client after close_client had
\* disconnected that client.
C39_Witness ==
    /\ c_issued.issued
    /\ c_issued.closed
    /\ ~c_issued.live
    /\ c_issued.client \in authorized

\* A step in which _ensure_client raises the not-authorized error.
RejectCompletes(c) == c_pc[c] = "reject" /\ c_pc'[c] = "rejected"

\* C40: _ensure_client rejects a session only outside login mode, holding
\* the lock, on a client the handle does not point at; when the rejection
\* completes that client is disconnected, was never authorized, the handle is
\* what it was, and the lock is free, so that the call that has raised holds
\* nothing a later call waits for.
C40_RejectionLeavesHandle ==
    /\ [][\A c \in Callers :
            RejectCompletes(c) =>
                /\ ~connected'[c_client[c]]
                /\ c_client[c] \notin authorized'
                /\ _client' = _client
                /\ _client' # c_client[c]
                /\ _client_lock' = 0]_vars
    /\ [](\A c \in Callers :
            (c_pc[c] = "reject") =>
                /\ ~_LOGIN_MODE
                /\ _client_lock = c
                /\ c_client[c] # 0
                /\ _client # c_client[c])
    /\ [](\A c \in Callers :
            (c_pc[c] = "rejected") => (_client_lock # c /\ c_client[c] = 0))

\* The first caller was rejected with client 1; the second, which was behind
\* it, then made client 2, found it authorized and got it.
C40_Witness ==
    /\ c_pc[1] = "rejected"
    /\ c_pc[2] = "returned"
    /\ c_got[2] = 2
    /\ _client = 2
    /\ created = 2
    /\ ~connected[1]
    /\ 1 \notin authorized
    /\ closed = {}
    /\ c_drops = 0
    /\ c_ops = 2

====
